---- MODULE Spec2Model ----
(***************************************************************************)
(* mper: a static scanner that infers the Discord permissions a bot needs  *)
(* from its Python source and folds them into the invite-link bitmask.     *)
(*                                                                         *)
(* Modelled here: the permission tables and the bitmask fold               *)
(* (mper/permissions.py), the syntax-tree visitor, scan_file and           *)
(* scan_directory (mper/mper.py).                                          *)
(***************************************************************************)
EXTENDS Integers, Sequences, FiniteSets, TLC

VARIABLES
    lookup_name,            \* get_permission_value: the argument
    lookup_value,           \* get_permission_value: the returned value
    lookup_pc,
    calc_names,             \* calculate_permission_integer: the argument
    calc_total,             \* calculate_permission_integer: the returned value
    calc_pc,
    tree,                   \* PermissionVisitor: the parsed module handed to visit
    visitor,                \* PermissionVisitor: the five sets and the warnings
    visit_pc,
    files,                  \* the files os.walk yields, in the order it yields them
    include_inferred,       \* scan_directory: the argument include_inferred
    scan,                   \* scan_directory: its local sets, list and counters
    idx,                    \* scan_directory: position of the walk in files
    scan_pc,                \* position in scan_directory, scan_file and main
    file_result,            \* the dictionary scan_file returned for files[idx]
    result,                 \* the dictionary scan_directory returned
    total_permissions,      \* main: the integer put in the invite link
    link_client_id,         \* create_invite_link: the argument client_id
    link_permissions,       \* create_invite_link: the argument permissions
    link_scopes,            \* create_invite_link: the argument scopes
    invite_link,            \* create_invite_link: the returned string
    link_pc

lookupVars == <<lookup_name, lookup_value, lookup_pc>>

calcVars == <<calc_names, calc_total, calc_pc>>

visitVars == <<tree, visitor, visit_pc>>

scanVars == <<files, include_inferred, scan, idx, scan_pc, file_result, result,
              total_permissions>>

linkVars == <<link_client_id, link_permissions, link_scopes, invite_link, link_pc>>

vars == <<lookupVars, calcVars, visitVars, scanVars, linkVars>>

(***************************************************************************)
(* Python integers are unbounded and the table reaches 1 << 50.  A         *)
(* permission integer is kept as two limbs of LimbBits bits each, value    *)
(* = hi * 2^LimbBits + lo, so that no limb leaves TLC's integers.       *)
(***************************************************************************)
LimbBits == 26

LimbBase == 2 ^ LimbBits

\* Python's None
None == [none |-> TRUE]

\* the Python integer 0
Zero == [hi |-> 0, lo |-> 0]

\* 1 << k
Shl(k) == IF k < LimbBits THEN [hi |-> 0, lo |-> 2 ^ k]
                          ELSE [hi |-> 2 ^ (k - LimbBits), lo |-> 0]

RECURSIVE BitOrNat(_, _)
\* a | b on one limb
BitOrNat(a, b) ==
    IF a = 0 THEN b
    ELSE IF b = 0 THEN a
    ELSE (IF a % 2 = 1 \/ b % 2 = 1 THEN 1 ELSE 0) + 2 * BitOrNat(a \div 2, b \div 2)

\* a | b, the step  total |= value
BitOr(a, b) == [hi |-> BitOrNat(a.hi, b.hi), lo |-> BitOrNat(a.lo, b.lo)]

(***************************************************************************)
(* str.lower() on the identifiers of the model: the spellings that hold an *)
(* upper-case letter are listed with their lower-case form; every other    *)
(* identifier of the model is written in lower case already.               *)
(***************************************************************************)
UpperSpellings ==
    [BAN_MEMBERS |-> "ban_members",
     Kick_Members |-> "kick_members",
     Read_Messages |-> "read_messages",
     Teleport |-> "teleport"]

Lower(s) == IF s \in DOMAIN UpperSpellings THEN UpperSpellings[s] ELSE s

\* the shift k of each entry  name: 1 << k  of PERMISSIONS
PermissionShift ==
    [create_instant_invite |-> 0,
     kick_members |-> 1,
     ban_members |-> 2,
     administrator |-> 3,
     manage_channels |-> 4,
     manage_guild |-> 5,
     add_reactions |-> 6,
     view_audit_log |-> 7,
     priority_speaker |-> 8,
     stream |-> 9,
     view_channel |-> 10,
     send_messages |-> 11,
     send_tts_messages |-> 12,
     manage_messages |-> 13,
     embed_links |-> 14,
     attach_files |-> 15,
     read_message_history |-> 16,
     mention_everyone |-> 17,
     use_external_emojis |-> 18,
     view_guild_insights |-> 19,
     connect |-> 20,
     speak |-> 21,
     mute_members |-> 22,
     deafen_members |-> 23,
     move_members |-> 24,
     use_vad |-> 25,
     change_nickname |-> 26,
     manage_nicknames |-> 27,
     manage_roles |-> 28,
     manage_webhooks |-> 29,
     manage_guild_expressions |-> 30,
     use_application_commands |-> 31,
     request_to_speak |-> 32,
     manage_events |-> 33,
     manage_threads |-> 34,
     create_public_threads |-> 35,
     create_private_threads |-> 36,
     use_external_stickers |-> 37,
     send_messages_in_threads |-> 38,
     use_embedded_activities |-> 39,
     moderate_members |-> 40,
     view_creator_monetization_analytics |-> 41,
     use_soundboard |-> 42,
     create_guild_expressions |-> 43,
     create_events |-> 44,
     use_external_sounds |-> 45,
     send_voice_messages |-> 46,
     send_polls |-> 49,
     use_external_apps |-> 50]

\* the table numbered without leaving bits 47 and 48 out
PERMISSIONS_contiguous ==
    [n \in DOMAIN PermissionShift |->
        Shl(IF PermissionShift[n] > 46 THEN PermissionShift[n] - 2 ELSE PermissionShift[n])]

\* PERMISSIONS: canonical name -> bit value
PERMISSIONS == [n \in DOMAIN PermissionShift |-> Shl(PermissionShift[n])]

\* PERMISSION_ALIASES: old or variant spelling -> canonical name
PERMISSION_ALIASES ==
    [read_messages |-> "view_channel",
     send_message |-> "send_messages",
     external_emojis |-> "use_external_emojis",
     external_stickers |-> "use_external_stickers",
     manage_emojis |-> "manage_guild_expressions",
     manage_emojis_and_stickers |-> "manage_guild_expressions",
     manage_permissions |-> "manage_roles",
     use_voice_activity |-> "use_vad",
     go_live |-> "stream",
     timeout_members |-> "moderate_members",
     use_slash_commands |-> "use_application_commands"]

\* dict.get(key): the value, or None for a missing key
DictGet(d, key) == IF key \in DOMAIN d THEN d[key] ELSE None

\* get_permission_value looking the alias itself up in PERMISSIONS
get_permission_value_unresolved(name) ==
    LET name_lower == Lower(name) IN
    IF name_lower \in DOMAIN PERMISSIONS THEN PERMISSIONS[name_lower]
    ELSE IF name_lower \in DOMAIN PERMISSION_ALIASES
         THEN DictGet(PERMISSIONS, name_lower)
         ELSE None

\* get_permission_value(name)
get_permission_value(name) ==
    LET name_lower == Lower(name) IN
    IF name_lower \in DOMAIN PERMISSIONS THEN PERMISSIONS[name_lower]
    ELSE IF name_lower \in DOMAIN PERMISSION_ALIASES
         THEN DictGet(PERMISSIONS, PERMISSION_ALIASES[name_lower])
         ELSE None

\* the loop body with  total += value  in place of  total |= value
CalcFold_add(total, name) ==
    LET value == get_permission_value(name) IN
    IF value /= None THEN [hi |-> total.hi + value.hi, lo |-> total.lo + value.lo]
                     ELSE total

\* one iteration of the loop of calculate_permission_integer
CalcFold(total, name) ==
    LET value == get_permission_value(name) IN
    IF value /= None THEN BitOr(total, value) ELSE total

RECURSIVE CalcLoop(_, _, _)
CalcLoop(permission_names, i, total) ==
    IF i > Len(permission_names) THEN total
    ELSE CalcLoop(permission_names, i + 1, CalcFold(total, permission_names[i]))

\* calculate_permission_integer(permission_names); the collection is
\* iterated in the order given
calculate_permission_integer(permission_names) == CalcLoop(permission_names, 1, Zero)

\* calculate_permissions(permission_names)
calculate_permissions(permission_names) == calculate_permission_integer(permission_names)

\* the orders in which iterating over a set may give its elements
Orderings(S) ==
    {order \in [1..Cardinality(S) -> S] : {order[i] : i \in 1..Cardinality(S)} = S}

(***************************************************************************)
(* The remaining tables of permissions.py.                                 *)
(***************************************************************************)
\* METHOD_TO_PERMISSIONS: method name -> list of permission names
METHOD_TO_PERMISSIONS ==
    [ban |-> <<"ban_members">>,
     unban |-> <<"ban_members">>,
     kick |-> <<"kick_members">>,
     timeout |-> <<"moderate_members">>,
     edit |-> <<>>,
     send |-> <<"send_messages">>,
     delete |-> <<>>,
     purge |-> <<"manage_messages", "read_message_history">>,
     pin |-> <<"manage_messages">>,
     unpin |-> <<"manage_messages">>,
     publish |-> <<"send_messages", "manage_messages">>,
     add_reaction |-> <<"add_reactions">>,
     clear_reactions |-> <<"manage_messages">>,
     remove_reaction |-> <<>>,
     create_text_channel |-> <<"manage_channels">>,
     create_voice_channel |-> <<"manage_channels">>,
     create_category |-> <<"manage_channels">>,
     create_stage_channel |-> <<"manage_channels">>,
     create_forum |-> <<"manage_channels">>,
     delete_channel |-> <<"manage_channels">>,
     create_role |-> <<"manage_roles">>,
     delete_role |-> <<"manage_roles">>,
     add_roles |-> <<"manage_roles">>,
     remove_roles |-> <<"manage_roles">>,
     create_webhook |-> <<"manage_webhooks">>,
     delete_webhook |-> <<"manage_webhooks">>,
     webhooks |-> <<"manage_webhooks">>,
     create_thread |-> <<"create_public_threads">>,
     archive |-> <<"manage_threads">>,
     unarchive |-> <<"manage_threads">>,
     join_thread |-> <<"send_messages_in_threads">>,
     move_to |-> <<"move_members">>,
     disconnect |-> <<"move_members">>,
     create_invite |-> <<"create_instant_invite">>,
     invites |-> <<"manage_guild">>,
     fetch_audit_logs |-> <<"view_audit_log">>,
     audit_logs |-> <<"view_audit_log">>,
     create_custom_emoji |-> <<"manage_guild_expressions">>,
     delete_emoji |-> <<"manage_guild_expressions">>,
     create_sticker |-> <<"manage_guild_expressions">>,
     delete_sticker |-> <<"manage_guild_expressions">>,
     create_scheduled_event |-> <<"manage_events">>,
     delete_scheduled_event |-> <<"manage_events">>]

PERMISSION_DECORATORS == {"has_permissions", "has_guild_permissions"}

BOT_PERMISSION_DECORATORS == {"bot_has_permissions", "bot_has_guild_permissions"}

APP_COMMAND_PERMISSION_DECORATORS == {"has_permissions"}

APP_COMMAND_BOT_PERMISSION_DECORATORS == {"bot_has_permissions"}

WRAPPER_DECORATORS == {"check_any", "check"}

PERMISSION_CLASSES == {"Permissions", "PermissionOverwrite"}

PERMISSION_ATTRIBUTES ==
    {"guild_permissions", "permissions", "app_permissions", "resolved_permissions"}

(***************************************************************************)
(* Syntax trees.  A node is a record with the node class in `type` and the *)
(* fields of that class that hold child nodes or names.                    *)
(***************************************************************************)
\* keyword.arg of a  **mapping  argument is None; None is a Python keyword
\* and so never the spelling of an identifier
NoneName == "None"

Name(id) == [type |-> "Name", id |-> id]

\* the Python object held by an ast.Constant, named by its repr
Literal(repr) == [type |-> "object", repr |-> repr]

\* ast.Constant; value is the object the literal denotes
Const(repr) == [type |-> "Constant", value |-> Literal(repr)]

Attribute(value, attr) == [type |-> "Attribute", value |-> value, attr |-> attr]

Call(func, args, keywords) ==
    [type |-> "Call", func |-> func, args |-> args, keywords |-> keywords]

Keyword(arg, value) == [type |-> "keyword", arg |-> arg, value |-> value]

UnaryOp(operand) == [type |-> "UnaryOp", operand |-> operand]

Await(value) == [type |-> "Await", value |-> value]

ExprStmt(value) == [type |-> "Expr", value |-> value]

\* type is FunctionDef or AsyncFunctionDef; defaults are the default values
\* held by the args field
FunctionDef(type, defaults, body, decorator_list) ==
    [type |-> type, defaults |-> defaults, body |-> body,
     decorator_list |-> decorator_list]

ClassDef(bases, body, decorator_list) ==
    [type |-> "ClassDef", bases |-> bases, body |-> body,
     decorator_list |-> decorator_list]

Module(body) == [type |-> "Module", body |-> body]

\* a node of any other class (Assign, If, JoinedStr, arguments, ...) with
\* its child nodes in the order of its fields; the visitor has no method
\* for these classes
Other(class, children) == [type |-> "Other", class |-> class, children |-> children]

\* the literals bool() maps to False
FalsyLiterals == {"False", "None", "0", "0.0", "0j", "''", "b''"}

\* bool(node.value) for the value of an ast.Constant
PyBool(value) == value.repr \notin FalsyLiterals

\* the child nodes of a node in the order of its _fields, as
\* ast.iter_fields yields them to generic_visit
Children(node) ==
    CASE node.type = "Module" -> node.body
      [] node.type \in {"FunctionDef", "AsyncFunctionDef"} ->
            node.defaults \o node.body \o node.decorator_list
      [] node.type = "ClassDef" -> node.bases \o node.body \o node.decorator_list
      [] node.type \in {"Expr", "Await"} -> <<node.value>>
      [] node.type = "Call" -> <<node.func>> \o node.args \o node.keywords
      [] node.type = "keyword" -> <<node.value>>
      [] node.type = "Attribute" -> <<node.value>>
      [] node.type = "UnaryOp" -> <<node.operand>>
      [] node.type = "Other" -> node.children
      [] OTHER -> <<>>

(***************************************************************************)
(* class PermissionVisitor.  `self` is the record of the visitor's fields; *)
(* every method returns the record as the method leaves it.                *)
(***************************************************************************)
\* PermissionVisitor.__init__
NewVisitor ==
    [user_permissions |-> {}, bot_permissions |-> {}, inferred_permissions |-> {},
     permission_objects |-> {}, attribute_permissions |-> {}, warnings |-> <<>>]

\* f"Unknown permission: {perm_name}"
UnknownPermission(perm_name) == [text |-> "Unknown permission: ", name |-> perm_name]

\* _is_truthy_value giving False for every expression that is not a literal
_is_truthy_value_strict(node) ==
    IF node.type = "Constant" THEN PyBool(node.value) ELSE FALSE

\* PermissionVisitor._is_truthy_value
_is_truthy_value(node) ==
    IF node.type = "Constant" THEN PyBool(node.value)
    ELSE IF node.type = "Name" THEN TRUE
    ELSE TRUE

\* _get_decorator_name without the branch for a qualified name
_get_decorator_name_bare(node) ==
    IF node.type = "Name" THEN node.id ELSE ""

\* PermissionVisitor._get_decorator_name
_get_decorator_name(node) ==
    IF node.type = "Name" THEN node.id
    ELSE IF node.type = "Attribute" THEN node.attr
    ELSE ""

\* PermissionVisitor._get_call_name
_get_call_name(node) ==
    IF node.type = "Name" THEN node.id
    ELSE IF node.type = "Attribute" THEN node.attr
    ELSE ""

\* _add_permission storing a name it cannot resolve instead of warning
_add_permission_lenient(self, perm_name, target_set) ==
    LET perm_lower == Lower(perm_name) IN
    IF perm_lower \in DOMAIN PERMISSION_ALIASES
    THEN [self EXCEPT ![target_set] = @ \cup {PERMISSION_ALIASES[perm_lower]}]
    ELSE [self EXCEPT ![target_set] = @ \cup {perm_lower}]

\* _add_permission storing an alias under the spelling it was given
_add_permission_aswritten(self, perm_name, target_set) ==
    LET perm_lower == Lower(perm_name) IN
    IF perm_lower \in DOMAIN PERMISSIONS \/ perm_lower \in DOMAIN PERMISSION_ALIASES
    THEN [self EXCEPT ![target_set] = @ \cup {perm_lower}]
    ELSE [self EXCEPT !.warnings = Append(@, UnknownPermission(perm_name))]

\* PermissionVisitor._add_permission; target_set names the field of self
_add_permission(self, perm_name, target_set) ==
    LET perm_lower == Lower(perm_name) IN
    IF perm_lower \in DOMAIN PERMISSIONS
    THEN [self EXCEPT ![target_set] = @ \cup {perm_lower}]
    ELSE IF perm_lower \in DOMAIN PERMISSION_ALIASES
    THEN [self EXCEPT ![target_set] = @ \cup {PERMISSION_ALIASES[perm_lower]}]
    ELSE [self EXCEPT !.warnings = Append(@, UnknownPermission(perm_name))]

RECURSIVE DecoratorKeywords(_, _, _, _)
\* the loop over decorator.keywords of a permission decorator, from index i
DecoratorKeywords(self, keywords, i, is_bot_decorator) ==
    IF i > Len(keywords) THEN self
    ELSE LET keyword == keywords[i]
             after ==
                 IF keyword.arg /= NoneName
                 THEN LET perm_name == Lower(keyword.arg) IN
                      IF _is_truthy_value(keyword.value)
                      THEN IF is_bot_decorator
                           THEN _add_permission(self, perm_name, "bot_permissions")
                           ELSE _add_permission(self, perm_name, "user_permissions")
                      ELSE self
                 ELSE self
         IN DecoratorKeywords(after, keywords, i + 1, is_bot_decorator)

RECURSIVE _extract_permissions_from_decorator(_, _, _)
RECURSIVE ExtractEach(_, _, _, _)
\* _extract_permissions_from_decorator applied to nodes[i], nodes[i+1], ...:
\* the loops over decorator.args and over the values of decorator.keywords
ExtractEach(self, nodes, i, is_bot) ==
    IF i > Len(nodes) THEN self
    ELSE ExtractEach(_extract_permissions_from_decorator(self, nodes[i], is_bot),
                     nodes, i + 1, is_bot)

\* the wrapper branch recursing into the positional arguments only
WrapperArguments_positional(decorator) == decorator.args

\* the nodes the wrapper branch recurses into: every positional argument,
\* then the value of every keyword (an ast node is always truthy)
WrapperArguments(decorator) ==
    decorator.args \o [k \in 1..Len(decorator.keywords) |-> decorator.keywords[k].value]

\* PermissionVisitor._extract_permissions_from_decorator
_extract_permissions_from_decorator(self, decorator, is_bot) ==
    IF decorator.type = "Call"
    THEN LET decorator_name == _get_decorator_name(decorator.func)
             is_bot_decorator ==
                 \/ decorator_name \in BOT_PERMISSION_DECORATORS
                 \/ decorator_name \in APP_COMMAND_BOT_PERMISSION_DECORATORS
             is_user_decorator ==
                 \/ decorator_name \in PERMISSION_DECORATORS
                 \/ decorator_name \in APP_COMMAND_PERMISSION_DECORATORS
                 \/ decorator_name = "default_permissions"
         IN IF decorator_name \in WRAPPER_DECORATORS
            THEN ExtractEach(self, WrapperArguments(decorator), 1, is_bot)
            ELSE IF is_bot_decorator \/ is_user_decorator
            THEN DecoratorKeywords(self, decorator.keywords, 1, is_bot_decorator)
            ELSE self
    ELSE self

\* PermissionVisitor._check_decorators
_check_decorators(self, decorators) == ExtractEach(self, decorators, 1, FALSE)

\* the loop adding only the first permission mapped to the method
AddInferred_first(self, perms, i) ==
    IF perms = <<>> THEN self
    ELSE [self EXCEPT !.inferred_permissions = @ \cup {perms[1]}]

RECURSIVE AddInferred(_, _, _)
\* the loop  for perm in perms: self.inferred_permissions.add(perm)
AddInferred(self, perms, i) ==
    IF i > Len(perms) THEN self
    ELSE AddInferred([self EXCEPT !.inferred_permissions = @ \cup {perms[i]}],
                     perms, i + 1)

RECURSIVE ObjectKeywords(_, _, _)
\* the loop over node.keywords of a permission-object or update call
ObjectKeywords(self, keywords, i) ==
    IF i > Len(keywords) THEN self
    ELSE LET keyword == keywords[i]
             after ==
                 IF keyword.arg /= NoneName /\ _is_truthy_value(keyword.value)
                 THEN _add_permission(self, keyword.arg, "permission_objects")
                 ELSE self
         IN ObjectKeywords(after, keywords, i + 1)

\* visit_Call without its branch for a call of a bare name
CallHooks_methods(self, node) ==
    IF node.func.type = "Attribute"
    THEN LET method_name == node.func.attr
             s1 == IF method_name \in DOMAIN METHOD_TO_PERMISSIONS
                   THEN AddInferred(self, METHOD_TO_PERMISSIONS[method_name], 1)
                   ELSE self
         IN IF method_name = "update" \/ method_name \in PERMISSION_CLASSES
            THEN ObjectKeywords(s1, node.keywords, 1)
            ELSE s1
    ELSE self

\* visit_Call before its generic_visit
CallHooks(self, node) ==
    LET func_name == _get_call_name(node.func) IN
    IF node.func.type = "Attribute"
    THEN LET method_name == node.func.attr
             s1 == IF method_name \in DOMAIN METHOD_TO_PERMISSIONS
                   THEN AddInferred(self, METHOD_TO_PERMISSIONS[method_name], 1)
                   ELSE self
             s2 == IF method_name = "update"
                   THEN ObjectKeywords(s1, node.keywords, 1)
                   ELSE s1
             s3 == IF method_name \in PERMISSION_CLASSES
                   THEN ObjectKeywords(s2, node.keywords, 1)
                   ELSE s2
         IN s3
    ELSE IF node.func.type = "Name"
    THEN IF func_name \in PERMISSION_CLASSES
         THEN ObjectKeywords(self, node.keywords, 1)
         ELSE self
    ELSE self

\* visit_Attribute accepting the names of the permission table only
AttributeHooks_canonical(self, node) ==
    IF node.value.type = "Attribute" /\ node.value.attr \in PERMISSION_ATTRIBUTES
           /\ Lower(node.attr) \in DOMAIN PERMISSIONS
    THEN _add_permission(self, Lower(node.attr), "attribute_permissions")
    ELSE self

\* visit_Attribute before its generic_visit
AttributeHooks(self, node) ==
    IF node.value.type = "Attribute"
    THEN LET parent_attr == node.value.attr IN
         IF parent_attr \in PERMISSION_ATTRIBUTES
         THEN LET perm_name == Lower(node.attr) IN
              IF perm_name \in DOMAIN PERMISSIONS \/ perm_name \in DOMAIN PERMISSION_ALIASES
              THEN _add_permission(self, perm_name, "attribute_permissions")
              ELSE self
         ELSE self
    ELSE self

RECURSIVE visit(_, _)
RECURSIVE VisitEach(_, _, _)
\* visit applied to nodes[i], nodes[i+1], ...; the comparison makes TLC
\* compute the visitor left by one child before it turns to the next, so
\* that the depth of the evaluation follows the depth of the tree
VisitEach(self, nodes, i) ==
    IF i > Len(nodes) THEN self
    ELSE LET visited == visit(self, nodes[i]) IN
         IF visited = visited THEN VisitEach(visited, nodes, i + 1) ELSE visited

\* ast.NodeVisitor.generic_visit
generic_visit(self, node) == VisitEach(self, Children(node), 1)

\* PermissionVisitor.visit_FunctionDef
visit_FunctionDef(self, node) ==
    generic_visit(_check_decorators(self, node.decorator_list), node)

\* PermissionVisitor.visit_AsyncFunctionDef
visit_AsyncFunctionDef(self, node) ==
    generic_visit(_check_decorators(self, node.decorator_list), node)

\* PermissionVisitor.visit_Call
visit_Call(self, node) == generic_visit(CallHooks(self, node), node)

\* PermissionVisitor.visit_Attribute
visit_Attribute(self, node) == generic_visit(AttributeHooks(self, node), node)

\* ast.NodeVisitor.visit: dispatch on the node class
visit(self, node) ==
    CASE node.type = "FunctionDef" -> visit_FunctionDef(self, node)
      [] node.type = "AsyncFunctionDef" -> visit_AsyncFunctionDef(self, node)
      [] node.type = "Call" -> visit_Call(self, node)
      [] node.type = "Attribute" -> visit_Attribute(self, node)
      [] OTHER -> generic_visit(self, node)

(***************************************************************************)
(* scan_file and scan_directory.                                           *)
(***************************************************************************)
\* DEFAULT_EXCLUDE_DIRS
DEFAULT_EXCLUDE_DIRS ==
    {".venv", "venv", ".env", "env", "__pycache__", ".git", ".hg", ".svn",
     "node_modules", "site-packages", "dist-packages", ".tox", ".nox",
     ".pytest_cache", ".mypy_cache", "build", "dist", "egg-info"}

\* the dictionary scan_file starts from
empty_result ==
    [user_permissions |-> {}, bot_permissions |-> {}, inferred_permissions |-> {},
     permission_objects |-> {}, attribute_permissions |-> {}, warnings |-> <<>>]

\* the messages of scan_file: the text before the path, and the path; the
\* text of the exception that follows the path is left out
FileWarning(text, file_path) == [text |-> text, path |-> file_path]

\* the locals of scan_directory before the walk
NewScan ==
    [user_permissions |-> {}, bot_permissions |-> {}, inferred_permissions |-> {},
     permission_objects |-> {}, attribute_permissions |-> {}, all_warnings |-> <<>>,
     files_scanned |-> 0, files_with_errors |-> 0]

NoResult == [returned |-> FALSE]

\* os.path.join(root, file) of the i-th file of the walk
PathOf(i) == i

\* a walk that prunes the excluded names among the top directories only
Walked_top(f, exclude_dirs) == f.dirs = <<>> \/ f.dirs[1] \notin exclude_dirs

\* os.walk prunes every directory whose name is in exclude_dirs, so a file
\* is yielded when no directory on its way from the root is excluded
Walked(f, exclude_dirs) == \A k \in 1..Len(f.dirs) : f.dirs[k] \notin exclude_dirs

\* file.endswith('.py')
IsPython(f) == f.suffix = ".py"

\* all_bot_permissions taking the inferred names whatever include_inferred is
AllBotPermissions_always(bot_permissions, inferred_permissions, include) ==
    bot_permissions \cup inferred_permissions

\* all_bot_permissions = bot_permissions.copy(), updated with the inferred
\* names if include_inferred
AllBotPermissions(bot_permissions, inferred_permissions, include) ==
    IF include THEN bot_permissions \cup inferred_permissions ELSE bot_permissions

\* the dictionary scan_directory returns
ScanResult(s, include) ==
    [user_permissions |-> s.user_permissions,
     bot_permissions |-> s.bot_permissions,
     inferred_permissions |-> s.inferred_permissions,
     permission_objects |-> s.permission_objects,
     attribute_permissions |-> s.attribute_permissions,
     declared_permissions |-> s.user_permissions \cup s.bot_permissions,
     all_bot_permissions |->
         AllBotPermissions(s.bot_permissions, s.inferred_permissions, include),
     warnings |-> s.all_warnings,
     files_scanned |-> s.files_scanned,
     files_with_errors |-> s.files_with_errors,
     returned |-> TRUE]

\* a merge that keeps the user permissions of the last file only
Merged_last(s, r) ==
    LET u == [s EXCEPT !.user_permissions = r.user_permissions,
                       !.bot_permissions = @ \cup r.bot_permissions,
                       !.inferred_permissions = @ \cup r.inferred_permissions,
                       !.permission_objects = @ \cup r.permission_objects,
                       !.attribute_permissions = @ \cup r.attribute_permissions]
    IN IF r.warnings /= <<>>
       THEN [u EXCEPT !.files_with_errors = @ + 1,
                      !.all_warnings = @ \o r.warnings]
       ELSE u

\* a merge that counts every warning of the file
Merged_perwarning(s, r) ==
    LET u == [s EXCEPT !.user_permissions = @ \cup r.user_permissions,
                       !.bot_permissions = @ \cup r.bot_permissions,
                       !.inferred_permissions = @ \cup r.inferred_permissions,
                       !.permission_objects = @ \cup r.permission_objects,
                       !.attribute_permissions = @ \cup r.attribute_permissions]
    IN IF r.warnings /= <<>>
       THEN [u EXCEPT !.files_with_errors = @ + Len(r.warnings),
                      !.all_warnings = @ \o r.warnings]
       ELSE u

\* the body of the loop after scan_file returned: the five updates, then the
\* count and the warnings of a file that has any
Merged(s, r) ==
    LET u == [s EXCEPT !.user_permissions = @ \cup r.user_permissions,
                       !.bot_permissions = @ \cup r.bot_permissions,
                       !.inferred_permissions = @ \cup r.inferred_permissions,
                       !.permission_objects = @ \cup r.permission_objects,
                       !.attribute_permissions = @ \cup r.attribute_permissions]
    IN IF r.warnings /= <<>>
       THEN [u EXCEPT !.files_with_errors = @ + 1,
                      !.all_warnings = @ \o r.warnings]
       ELSE u

\* the next position of the walk at or after i that holds a file the loop
\* body runs for, or Len(files) + 1
RECURSIVE NextPython(_, _)
NextPython(fs, i) ==
    IF i > Len(fs) THEN i
    ELSE IF Walked(fs[i], DEFAULT_EXCLUDE_DIRS) /\ IsPython(fs[i]) THEN i
    ELSE NextPython(fs, i + 1)

(***************************************************************************)
(* get_permission_value applied to one name.                               *)
(***************************************************************************)
\* the names looked up: every key of both tables, the upper-case spellings
\* and a name that is in neither table
LookupNames ==
    DOMAIN PERMISSIONS \cup DOMAIN PERMISSION_ALIASES \cup DOMAIN UpperSpellings
        \cup {"teleport"}

IdleLookup ==
    /\ lookup_name = "teleport"
    /\ lookup_value = None
    /\ lookup_pc = "idle"

IdleCalc ==
    /\ calc_names = <<>>
    /\ calc_total = Zero
    /\ calc_pc = "idle"

IdleVisit ==
    /\ tree = Module(<<>>)
    /\ visitor = NewVisitor
    /\ visit_pc = "idle"

IdleScan ==
    /\ files = <<>>
    /\ include_inferred = TRUE
    /\ scan = NewScan
    /\ idx = 0
    /\ scan_pc = "idle"
    /\ file_result = empty_result
    /\ result = NoResult
    /\ total_permissions = Zero

\* the argument scopes: not given (None), or a list of strings
NoScopes == [given |-> FALSE, list |-> <<>>]

IdleLink ==
    /\ link_client_id = <<>>
    /\ link_permissions = Zero
    /\ link_scopes = NoScopes
    /\ invite_link = <<>>
    /\ link_pc = "idle"

InitLookup ==
    /\ lookup_name \in LookupNames
    /\ lookup_value = None
    /\ lookup_pc = "start"
    /\ IdleCalc
    /\ IdleVisit
    /\ IdleScan
    /\ IdleLink

GetPermissionValue ==
    /\ lookup_pc = "start"
    /\ lookup_value' = get_permission_value(lookup_name)
    /\ lookup_pc' = "done"
    /\ UNCHANGED <<lookup_name, calcVars, visitVars, scanVars, linkVars>>

NextLookup == GetPermissionValue

SpecLookup == InitLookup /\ [][NextLookup]_vars

(***************************************************************************)
(* calculate_permission_integer applied to one collection of names.        *)
(***************************************************************************)
\* longest collection of names handed to calculate_permission_integer
MaxLen == 3

\* the names the collections are drawn from: canonical names (low bits, the
\* highest bits of each limb), an alias, its canonical name, an upper-case
\* spelling and a name that does not resolve
CalcNames ==
    {"kick_members", "ban_members", "read_messages", "view_channel",
     "BAN_MEMBERS", "teleport", "send_voice_messages", "use_external_apps"}

\* all sequences over S of length at most n
SeqsUpTo(S, n) == UNION {[1..k -> S] : k \in 0..n}

InitCalc ==
    /\ calc_names \in SeqsUpTo(CalcNames, MaxLen)
    /\ calc_total = Zero
    /\ calc_pc = "start"
    /\ IdleLookup
    /\ IdleVisit
    /\ IdleScan
    /\ IdleLink

CalculatePermissionInteger ==
    /\ calc_pc = "start"
    /\ calc_total' = calculate_permissions(calc_names)
    /\ calc_pc' = "done"
    /\ UNCHANGED <<calc_names, lookupVars, visitVars, scanVars, linkVars>>

NextCalc == CalculatePermissionInteger

SpecCalc == InitCalc /\ [][NextCalc]_vars

(***************************************************************************)
(* PermissionVisitor().visit(tree) applied to one parsed module.           *)
(***************************************************************************)
\* deepest nesting of calls around a permission decorator
MaxDepth == 2

True == Const("True")

\* a name written bare, after  commands.  or after  app_commands.checks.
Qualified(qualifier, id) ==
    CASE qualifier = "bare" -> Name(id)
      [] qualifier = "commands" -> Attribute(Name("commands"), id)
      [] OTHER -> Attribute(Attribute(Name("app_commands"), "checks"), id)

Qualifiers == {"bare", "commands", "app_commands.checks"}

\* a module holding one definition with the given decorators and no body
Decorated(type, decorator_list) ==
    Module(<<FunctionDef(type, <<>>, <<>>, decorator_list)>>)

\* the decorator names tried: the five recognized ones and one that is not
DecoratorNames ==
    PERMISSION_DECORATORS \cup BOT_PERMISSION_DECORATORS
        \cup {"default_permissions", "command"}

\* keyword lists with truthy values: canonical names, an alias, upper-case
\* spellings and names that do not resolve
KeywordLists ==
    {<<>>,
     <<Keyword("ban_members", True), Keyword("kick_members", True)>>,
     <<Keyword("read_messages", True)>>,
     <<Keyword("manage_messages", True)>>,
     <<Keyword("teleport", True)>>,
     <<Keyword("Teleport", True), Keyword("ban_members", True)>>,
     <<Keyword("teleport", True), Keyword("Teleport", True)>>,
     <<Keyword("BAN_MEMBERS", True), Keyword("Read_Messages", True)>>}

\* one definition, one decorator applied directly
DirectTrees ==
    {Decorated(type, <<Call(Qualified(q, name), <<>>, keywords)>>) :
        type \in {"FunctionDef", "AsyncFunctionDef"}, q \in Qualifiers,
        name \in DecoratorNames, keywords \in KeywordLists}

\* the values a keyword is given: literals, and expressions that are not
\* literals
ValueNodes ==
    {Const(v) : v \in {"True", "False", "None", "0", "1", "''", "'x'", "0.0",
                       "b''", "Ellipsis"}}
        \cup {Name("flag"), Call(Name("f"), <<>>, <<>>), UnaryOp(Const("1")),
              UnaryOp(Const("0")), Attribute(Name("cfg"), "enabled")}

\* one keyword with any value, alone or followed by ban_members=True
ValueKeywordLists ==
    {<<Keyword(arg, v)>> : arg \in {"administrator", "teleport", NoneName},
                           v \in ValueNodes}
        \cup {<<Keyword("administrator", v), Keyword("ban_members", True)>> :
                 v \in ValueNodes}

\* the permission-object constructors, bare and qualified, and update
ObjectCallees ==
    {Name("Permissions"), Attribute(Name("discord"), "Permissions"),
     Name("PermissionOverwrite"), Attribute(Name("discord"), "PermissionOverwrite"),
     Attribute(Name("perms"), "update"), Name("update")}

\* one decorator, or one call statement, whose keywords take every value
ValueTrees ==
    {Decorated("AsyncFunctionDef", <<Call(Name(name), <<>>, keywords)>>) :
        name \in {"has_permissions", "bot_has_permissions"},
        keywords \in ValueKeywordLists}
        \cup {Module(<<ExprStmt(Call(callee, <<>>, keywords))>>) :
                 callee \in ObjectCallees, keywords \in ValueKeywordLists}

\* one call statement of each callee with each list of truthy keywords
ObjectTrees ==
    {Module(<<ExprStmt(Call(callee, <<>>, keywords))>>) :
        callee \in ObjectCallees, keywords \in KeywordLists}

\* the calls a decorator is nested in: the two wrappers and a call that is
\* no wrapper
Enclosers == {Attribute(Name("commands"), "check_any"), Name("check"), Name("guard")}

\* inner passed to the call as its positional or as a keyword argument
Enclose(func, as_keyword, inner) ==
    IF as_keyword THEN Call(func, <<>>, <<Keyword("predicate", inner)>>)
                  ELSE Call(func, <<inner>>, <<>>)

RECURSIVE EnclosedUpTo(_, _)
\* the expressions of S nested in at most depth calls
EnclosedUpTo(S, depth) ==
    IF depth = 0 THEN S
    ELSE LET inner == EnclosedUpTo(S, depth - 1) IN
         inner \cup {Enclose(func, as_keyword, x) :
                        func \in Enclosers, as_keyword \in BOOLEAN, x \in inner}

\* the permission decorators that are nested
NestedLeaves ==
    {Call(Attribute(Name("commands"), name), <<>>, keywords) :
        name \in {"has_permissions", "bot_has_permissions"},
        keywords \in {<<Keyword("manage_messages", True)>>,
                      <<Keyword("teleport", True)>>,
                      <<Keyword("Teleport", True), Keyword("ban_members", True)>>}}

\* one definition, one decorator nested in calls
NestedTrees ==
    {Decorated("AsyncFunctionDef", <<d>>) : d \in EnclosedUpTo(NestedLeaves, MaxDepth)}

UserLeaf == Call(Name("has_permissions"), <<>>, <<Keyword("manage_messages", True)>>)

BotLeaf == Call(Name("bot_has_permissions"), <<>>, <<Keyword("ban_members", True)>>)

UnknownLeaf == Call(Name("has_permissions"), <<>>, <<Keyword("teleport", True)>>)

\* wrappers with several arguments, several decorators on one definition,
\* definitions nested in a class and in each other, a decorated class
MixedTrees ==
    {Decorated("FunctionDef",
        <<Call(Name("check_any"), <<UserLeaf, BotLeaf>>, <<>>)>>),
     Decorated("FunctionDef",
        <<Call(Name("check_any"), <<UnknownLeaf>>, <<Keyword("other", UnknownLeaf)>>)>>),
     Decorated("FunctionDef",
        <<Call(Name("check"), <<Name("is_owner")>>, <<Keyword("extra", BotLeaf)>>)>>),
     Decorated("FunctionDef", <<Name("staticmethod"), UserLeaf, BotLeaf>>),
     Decorated("FunctionDef", <<UnknownLeaf, UnknownLeaf>>),
     Module(<<ClassDef(<<Name("Cog")>>,
                <<FunctionDef("AsyncFunctionDef", <<>>,
                     <<FunctionDef("FunctionDef", <<>>, <<>>, <<UnknownLeaf>>)>>,
                     <<BotLeaf>>)>>,
                <<>>)>>),
     Module(<<ClassDef(<<>>, <<>>, <<UserLeaf>>)>>),
     Module(<<FunctionDef("FunctionDef", <<>>, <<>>, <<UserLeaf>>),
              FunctionDef("AsyncFunctionDef", <<>>, <<>>, <<UnknownLeaf>>)>>)}

\* the receivers, positional arguments and keywords of the method calls
MethodCallShapes ==
    {<<Name("member"), <<>>, <<>>>>,
     <<Name("member"), <<>>, <<Keyword("reason", Name("reason"))>>>>,
     <<Attribute(Name("ctx"), "guild"), <<Name("user")>>,
       <<Keyword("delete_message_days", Const("0"))>>>>}

\* calls of every method of the table and of a method that is not in it,
\* and calls of a bare function named as a method of the table
MethodCalls ==
    {Call(Attribute(shape[1], m), shape[2], shape[3]) :
        m \in DOMAIN METHOD_TO_PERMISSIONS \cup {"fetch_message"},
        shape \in MethodCallShapes}
        \cup {Call(Name(m), <<>>, <<>>) : m \in {"ban", "purge"}}

\* the places of a file a call is written at
Places ==
    {"statement", "awaited in a method", "argument", "keyword value",
     "nested definition", "default value", "decorator"}

\* a module holding the expression at the place
Placed(place, expr) ==
    CASE place = "statement" -> Module(<<ExprStmt(expr)>>)
      [] place = "awaited in a method" ->
            Module(<<ClassDef(<<Name("Cog")>>,
                       <<FunctionDef("AsyncFunctionDef", <<>>,
                            <<ExprStmt(Await(expr))>>, <<>>)>>, <<>>)>>)
      [] place = "argument" ->
            Module(<<ExprStmt(Call(Name("print"), <<expr>>, <<>>))>>)
      [] place = "keyword value" ->
            Module(<<ExprStmt(Call(Attribute(Name("log"), "info"), <<>>,
                                   <<Keyword("result", expr)>>))>>)
      [] place = "nested definition" ->
            Module(<<FunctionDef("AsyncFunctionDef", <<>>,
                       <<FunctionDef("FunctionDef", <<>>, <<ExprStmt(expr)>>, <<>>)>>,
                       <<>>)>>)
      [] place = "default value" ->
            Module(<<FunctionDef("FunctionDef", <<expr>>, <<>>, <<>>)>>)
      [] OTHER -> Decorated("AsyncFunctionDef", <<expr>>)

\* one call of a method at one place, and two calls in one another
MethodTrees ==
    {Placed(place, c) : place \in Places, c \in MethodCalls}
        \cup {Module(<<ExprStmt(Call(Attribute(Name("channel"), "send"),
                   <<Call(Attribute(Name("member"), "kick"), <<>>, <<>>)>>, <<>>))>>),
              Module(<<FunctionDef("AsyncFunctionDef", <<>>,
                   <<ExprStmt(Await(Call(Attribute(Name("member"), "ban"), <<>>,
                                         <<Keyword("reason", Name("reason"))>>)))>>,
                   <<BotLeaf, UserLeaf>>)>>)}

\* the expressions a permission name is read from: e.c for every container
\* name c and for a name that is no container, on a name, on a longer
\* chain and on a call result; a bare name c; the result of permissions_for
PermissionHolders ==
    {Attribute(e, c) :
        e \in {Name("ctx"), Attribute(Name("ctx"), "author"),
               Call(Attribute(Name("guild"), "get_member"), <<Name("uid")>>, <<>>)},
        c \in PERMISSION_ATTRIBUTES \cup {"roles"}}
        \cup {Name("guild_permissions"),
              Call(Attribute(Name("channel"), "permissions_for"), <<Name("member")>>, <<>>)}

\* the names read: canonical, an alias, an upper-case spelling and two names
\* that do not resolve
AccessedNames == {"manage_messages", "read_messages", "BAN_MEMBERS", "teleport", "value"}

\* holder.p, alone, continued by a further attribute, and called
Accesses ==
    LET direct == {Attribute(h, p) : h \in PermissionHolders, p \in AccessedNames} IN
    direct \cup {Attribute(x, "real") : x \in direct}
           \cup {Call(x, <<>>, <<>>) : x \in direct}

\* one access at one place, and a chain in which the shape occurs twice
AttributeTrees ==
    {Placed(place, x) :
        place \in {"statement", "argument", "nested definition"}, x \in Accesses}
        \cup {Module(<<ExprStmt(
                  Attribute(Attribute(Attribute(Attribute(Name("a"), "permissions"),
                      "administrator"), "app_permissions"), "kick_members"))>>)}

(***************************************************************************)
(* The sample bot examples/sample_bot/bot.py as ast.parse returns it.  The *)
(* arguments node of a definition stands in its defaults; string literals  *)
(* that are not plain short ASCII are written '...'.                       *)
(***************************************************************************)
\* ModerationCog.__init__ of the sample bot
ModerationCog_init ==
    FunctionDef("FunctionDef",
      <<Other("arguments", <<Other("arg", <<>>),
                             Other("arg", <<Attribute(Name("commands"), "Bot")>>)>>)>>,
      <<Other("Assign", <<Attribute(Name("self"), "bot"), Name("bot")>>)>>,
      <<>>)

\* ModerationCog.kick of the sample bot
ModerationCog_kick ==
    FunctionDef("AsyncFunctionDef",
      <<Other("arguments", <<Other("arg", <<>>),
                             Other("arg", <<Attribute(Name("discord"), "Interaction")>>),
                             Other("arg", <<Attribute(Name("discord"), "Member")>>),
                             Other("arg", <<Name("str")>>),
                             Const("'...'")>>)>>,
      <<ExprStmt(Const("'...'")),
        ExprStmt(Await(Call(
                         Attribute(Name("member"), "kick"),
                         <<>>,
                         <<Keyword("reason", Name("reason"))>>))),
        ExprStmt(Await(Call(
                         Attribute(
                           Attribute(Name("interaction"), "response"),
                           "send_message"),
                         <<Other("JoinedStr", <<Other("FormattedValue",
                                                  <<Attribute(
                                                      Name("member"),
                                                      "display_name")>>),
                                                Const("'...'")>>)>>,
                         <<>>)))>>,
      <<Call(
          Attribute(Name("app_commands"), "command"),
          <<>>,
          <<Keyword("name", Const("'kick'")), Keyword("description", Const("'...'"))>>),
        Call(
          Attribute(Name("app_commands"), "describe"),
          <<>>,
          <<Keyword("member", Const("'...'")), Keyword("reason", Const("'...'"))>>)>>)

\* ModerationCog.ban of the sample bot
ModerationCog_ban ==
    FunctionDef("AsyncFunctionDef",
      <<Other("arguments", <<Other("arg", <<>>),
                             Other("arg", <<Attribute(Name("discord"), "Interaction")>>),
                             Other("arg", <<Attribute(Name("discord"), "Member")>>),
                             Other("arg", <<Name("str")>>),
                             Const("'...'")>>)>>,
      <<ExprStmt(Const("'...'")),
        ExprStmt(Await(Call(
                         Attribute(Name("member"), "ban"),
                         <<>>,
                         <<Keyword("reason", Name("reason"))>>))),
        ExprStmt(Await(Call(
                         Attribute(
                           Attribute(Name("interaction"), "response"),
                           "send_message"),
                         <<Other("JoinedStr", <<Other("FormattedValue",
                                                  <<Attribute(
                                                      Name("member"),
                                                      "display_name")>>),
                                                Const("'...'")>>)>>,
                         <<>>)))>>,
      <<Call(
          Attribute(Name("app_commands"), "command"),
          <<>>,
          <<Keyword("name", Const("'ban'")), Keyword("description", Const("'...'"))>>),
        Call(
          Attribute(Name("app_commands"), "describe"),
          <<>>,
          <<Keyword("member", Const("'...'")), Keyword("reason", Const("'...'"))>>)>>)

\* ModerationCog.purge of the sample bot
ModerationCog_purge ==
    FunctionDef("AsyncFunctionDef",
      <<Other("arguments", <<Other("arg", <<>>),
                             Other("arg", <<Attribute(Name("discord"), "Interaction")>>),
                             Other("arg", <<Name("int")>>),
                             Const("10")>>)>>,
      <<ExprStmt(Const("'...'")),
        ExprStmt(Await(Call(
                         Attribute(Attribute(Name("interaction"), "response"), "defer"),
                         <<>>,
                         <<Keyword("ephemeral", Const("True"))>>))),
        Other("Assign", <<Name("deleted"),
                          Await(Call(
                                  Attribute(
                                    Attribute(Name("interaction"), "channel"),
                                    "purge"),
                                  <<>>,
                                  <<Keyword("limit", Name("count"))>>))>>),
        ExprStmt(Await(Call(
                         Attribute(Attribute(Name("interaction"), "followup"), "send"),
                         <<Other("JoinedStr", <<Other("FormattedValue",
                                                  <<Call(
                                                      Name("len"),
                                                      <<Name("deleted")>>,
                                                      <<>>)>>),
                                                Const("'...'")>>)>>,
                         <<>>)))>>,
      <<Call(
          Attribute(Name("app_commands"), "command"),
          <<>>,
          <<Keyword("name", Const("'purge'")), Keyword("description", Const("'...'"))>>),
        Call(
          Attribute(Name("app_commands"), "describe"),
          <<>>,
          <<Keyword("count", Const("'...'"))>>)>>)

\* class ModerationCog of the sample bot
ModerationCog ==
    ClassDef(
      <<Attribute(Name("commands"), "Cog")>>,
      <<ExprStmt(Const("'...'")),
        ModerationCog_init,
        ModerationCog_kick,
        ModerationCog_ban,
        ModerationCog_purge>>,
      <<>>)

\* UtilityCog.__init__ of the sample bot
UtilityCog_init ==
    FunctionDef("FunctionDef",
      <<Other("arguments", <<Other("arg", <<>>),
                             Other("arg", <<Attribute(Name("commands"), "Bot")>>)>>)>>,
      <<Other("Assign", <<Attribute(Name("self"), "bot"), Name("bot")>>)>>,
      <<>>)

\* UtilityCog.ping of the sample bot
UtilityCog_ping ==
    FunctionDef("AsyncFunctionDef",
      <<Other("arguments", <<Other("arg", <<>>),
                             Other("arg", <<Attribute(
                                              Name("discord"),
                                              "Interaction")>>)>>)>>,
      <<ExprStmt(Const("'...'")),
        Other("Assign", <<Name("latency"),
                          Call(
                            Name("round"),
                            <<Other("BinOp", <<Attribute(
                                                 Attribute(Name("self"), "bot"),
                                                 "latency"),
                                               Const("1000")>>)>>,
                            <<>>)>>),
        ExprStmt(Await(Call(
                         Attribute(
                           Attribute(Name("interaction"), "response"),
                           "send_message"),
                         <<Other("JoinedStr", <<Const("'...'"),
                                                Other("FormattedValue", <<Name(
                                                                            "latency")>>),
                                                Const("'ms'")>>)>>,
                         <<>>)))>>,
      <<Call(
          Attribute(Name("app_commands"), "command"),
          <<>>,
          <<Keyword("name", Const("'ping'")), Keyword("description", Const("'...'"))>>)>>)

\* UtilityCog.say of the sample bot
UtilityCog_say ==
    FunctionDef("AsyncFunctionDef",
      <<Other("arguments", <<Other("arg", <<>>),
                             Other("arg", <<Attribute(Name("discord"), "Interaction")>>),
                             Other("arg", <<Name("str")>>)>>)>>,
      <<ExprStmt(Const("'...'")),
        ExprStmt(Await(Call(
                         Attribute(
                           Attribute(Name("interaction"), "response"),
                           "send_message"),
                         <<Const("'...'")>>,
                         <<Keyword("ephemeral", Const("True"))>>))),
        ExprStmt(Await(Call(
                         Attribute(Attribute(Name("interaction"), "channel"), "send"),
                         <<Name("message")>>,
                         <<>>)))>>,
      <<Call(
          Attribute(Name("app_commands"), "command"),
          <<>>,
          <<Keyword("name", Const("'say'")), Keyword("description", Const("'...'"))>>),
        Call(
          Attribute(Name("app_commands"), "describe"),
          <<>>,
          <<Keyword("message", Const("'...'"))>>)>>)

\* UtilityCog.invite of the sample bot
UtilityCog_invite ==
    FunctionDef("AsyncFunctionDef",
      <<Other("arguments", <<Other("arg", <<>>),
                             Other("arg", <<Attribute(
                                              Name("discord"),
                                              "Interaction")>>)>>)>>,
      <<ExprStmt(Const("'...'")),
        ExprStmt(Await(Call(
                         Attribute(Attribute(Name("interaction"), "response"), "defer"),
                         <<>>,
                         <<Keyword("ephemeral", Const("True"))>>))),
        Other("Assign", <<Name("bot_dir"),
                          Call(
                            Attribute(Attribute(Name("os"), "path"), "dirname"),
                            <<Call(
                                Attribute(Attribute(Name("os"), "path"), "abspath"),
                                <<Name("__file__")>>,
                                <<>>)>>,
                            <<>>)>>),
        Other("Assign", <<Name("client_id"),
                          Call(
                            Name("str"),
                            <<Attribute(
                                Attribute(Attribute(Name("self"), "bot"), "user"),
                                "id")>>,
                            <<>>)>>),
        Other("Assign", <<Name("invite_url"),
                          Call(
                            Attribute(Name("mper"), "generate_invite_url"),
                            <<Name("bot_dir")>>,
                            <<Keyword("client_id", Name("client_id"))>>)>>),
        Other("Assign", <<Name("result"),
                          Call(
                            Attribute(Name("mper"), "scan_directory"),
                            <<Name("bot_dir")>>,
                            <<>>)>>),
        Other("Assign", <<Name("perms"),
                          Call(
                            Name("sorted"),
                            <<Other("Subscript", <<Name("result"),
                                                   Const("'invite_link_permissions'")>>)>>,
                            <<>>)>>),
        Other("Assign", <<Name("embed"),
                          Call(
                            Attribute(Name("discord"), "Embed"),
                            <<>>,
                            <<Keyword("title", Const("'...'")),
                              Keyword("description", Const("'...'")),
                              Keyword("color", Call(
                                                 Attribute(
                                                   Attribute(Name("discord"), "Color"),
                                                   "blue"),
                                                 <<>>,
                                                 <<>>))>>)>>),
        ExprStmt(Call(
                   Attribute(Name("embed"), "add_field"),
                   <<>>,
                   <<Keyword("name", Const("'...'")),
                     Keyword("value", Other("BoolOp", <<Call(
                                                          Attribute(Const("'...'"), "join"),
                                                          <<Other("ListComp",
                                                              <<Other("JoinedStr",
                                                                  <<Const("'...'"),
                                                                    Other("FormattedValue",
                                                                      <<Name("p")>>)>>),
                                                                Other("comprehension",
                                                                  <<Name("p"),
                                                                    Name("perms")>>)>>)>>,
                                                          <<>>),
                                                        Const("'...'")>>)),
                     Keyword("inline", Const("False"))>>)),
        ExprStmt(Call(
                   Attribute(Name("embed"), "add_field"),
                   <<>>,
                   <<Keyword("name", Const("'...'")),
                     Keyword("value", Name("invite_url")),
                     Keyword("inline", Const("False"))>>)),
        ExprStmt(Await(Call(
                         Attribute(Attribute(Name("interaction"), "followup"), "send"),
                         <<>>,
                         <<Keyword("embed", Name("embed"))>>)))>>,
      <<Call(
          Attribute(Name("app_commands"), "command"),
          <<>>,
          <<Keyword("name", Const("'invite'")), Keyword("description", Const("'...'"))>>)>>)

\* class UtilityCog of the sample bot
UtilityCog ==
    ClassDef(
      <<Attribute(Name("commands"), "Cog")>>,
      <<ExprStmt(Const("'...'")),
        UtilityCog_init,
        UtilityCog_ping,
        UtilityCog_say,
        UtilityCog_invite>>,
      <<>>)

\* setup_bot of the sample bot
setup_bot ==
    FunctionDef("AsyncFunctionDef",
      <<Other("arguments", <<>>)>>,
      <<ExprStmt(Const("'...'")),
        Other("Assign", <<Name("intents"),
                          Call(
                            Attribute(Attribute(Name("discord"), "Intents"), "default"),
                            <<>>,
                            <<>>)>>),
        Other("Assign", <<Attribute(Name("intents"), "message_content"), Const("True")>>),
        Other("Assign", <<Attribute(Name("intents"), "members"), Const("True")>>),
        Other("Assign", <<Name("bot"),
                          Call(
                            Attribute(Name("commands"), "Bot"),
                            <<>>,
                            <<Keyword("command_prefix", Const("'!'")),
                              Keyword("intents", Name("intents"))>>)>>),
        FunctionDef("AsyncFunctionDef",
          <<Other("arguments", <<>>)>>,
          <<ExprStmt(Call(
                       Name("print"),
                       <<Other("JoinedStr", <<Other("FormattedValue", <<Attribute(
                                                                          Name("bot"),
                                                                          "user")>>),
                                              Const("'...'")>>)>>,
                       <<>>)),
            ExprStmt(Await(Call(
                             Attribute(Attribute(Name("bot"), "tree"), "sync"),
                             <<>>,
                             <<>>))),
            ExprStmt(Call(Name("print"), <<Const("'...'")>>, <<>>))>>,
          <<Attribute(Name("bot"), "event")>>),
        ExprStmt(Await(Call(
                         Attribute(Name("bot"), "add_cog"),
                         <<Call(Name("ModerationCog"), <<Name("bot")>>, <<>>)>>,
                         <<>>))),
        ExprStmt(Await(Call(
                         Attribute(Name("bot"), "add_cog"),
                         <<Call(Name("UtilityCog"), <<Name("bot")>>, <<>>)>>,
                         <<>>))),
        Other("Return", <<Name("bot")>>)>>,
      <<>>)

\* the  if __name__ == '__main__'  block of the sample bot
SampleBotEntry ==
    Other("If", <<Other("Compare", <<Name("__name__"), Const("'__main__'")>>),
                  Other("Import", <<Other("alias", <<>>)>>),
                  FunctionDef("AsyncFunctionDef",
                    <<Other("arguments", <<>>)>>,
                    <<Other("Assign", <<Name("bot"),
                                        Await(Call(Name("setup_bot"), <<>>, <<>>))>>),
                      Other("Assign", <<Name("token"),
                                        Call(
                                          Attribute(Name("os"), "getenv"),
                                          <<Const("'DISCORD_TOKEN'")>>,
                                          <<>>)>>),
                      Other("If", <<Other("UnaryOp", <<Name("token")>>),
                                    ExprStmt(Call(Name("print"), <<Const("'...'")>>, <<>>)),
                                    Other("Return", <<>>)>>),
                      ExprStmt(Await(Call(
                                       Attribute(Name("bot"), "start"),
                                       <<Name("token")>>,
                                       <<>>)))>>,
                    <<>>),
                  ExprStmt(Call(
                             Attribute(Name("asyncio"), "run"),
                             <<Call(Name("main"), <<>>, <<>>)>>,
                             <<>>))>>)

\* examples/sample_bot/bot.py as ast.parse returns it
SampleBot ==
    Module(<<ExprStmt(Const("'...'")),
             Other("Import", <<Other("alias", <<>>)>>),
             Other("Import", <<Other("alias", <<>>)>>),
             Other("ImportFrom", <<Other("alias", <<>>)>>),
             Other("ImportFrom", <<Other("alias", <<>>)>>),
             Other("Import", <<Other("alias", <<>>)>>),
             ModerationCog,
             UtilityCog,
             setup_bot,
             SampleBotEntry>>)

\* the parsed modules the visitor is run on
Trees ==
    DirectTrees \cup ValueTrees \cup ObjectTrees \cup NestedTrees \cup MixedTrees
        \cup MethodTrees \cup AttributeTrees \cup {SampleBot}

InitVisit ==
    /\ tree \in Trees
    /\ visitor = NewVisitor
    /\ visit_pc = "start"
    /\ IdleLookup
    /\ IdleCalc
    /\ IdleScan
    /\ IdleLink

\* visitor = PermissionVisitor(); visitor.visit(tree)
VisitTree ==
    /\ visit_pc = "start"
    /\ visitor' = visit(NewVisitor, tree)
    /\ visit_pc' = "done"
    /\ UNCHANGED <<tree, lookupVars, calcVars, scanVars, linkVars>>

NextVisit == VisitTree

SpecVisit == InitVisit /\ [][NextVisit]_vars

(***************************************************************************)
(* One run of main: scan_directory over the files of a walk, then the      *)
(* permission integer of the invite link.                                  *)
(***************************************************************************)
\* most files in the tree that is walked
MaxFiles == 2

\* a file of the walk: the directories from the root down to it, the suffix
\* of its name, and what reading and parsing it gives:
\*   unreadable   open() raises OSError
\*   undecodable  read() raises UnicodeDecodeError
\*   invalid      ast.parse raises SyntaxError
\*   overflow     ast.parse raises RecursionError: the text nests deeper than
\*                the construction of the tree can follow
\*   module       ast.parse returns tree; deep says that tree nests deeper
\*                than the interpreter's recursion limit lets visit descend
File(dirs, suffix, kind, module, deep) ==
    [dirs |-> dirs, suffix |-> suffix, kind |-> kind, tree |-> module, deep |-> deep]

Unparsed(kind) == File(<<>>, ".py", kind, Module(<<>>), FALSE)

\* a bot decorator on a command that kicks
BotModule ==
    Module(<<FunctionDef("AsyncFunctionDef", <<>>,
               <<ExprStmt(Await(Call(Attribute(Name("member"), "kick"), <<>>,
                                     <<Keyword("reason", Name("reason"))>>)))>>,
               <<BotLeaf>>)>>)

\* a user decorator, a permission object and an access through
\* guild_permissions
UserModule ==
    Module(<<FunctionDef("AsyncFunctionDef", <<>>,
               <<ExprStmt(Call(Attribute(Name("discord"), "Permissions"), <<>>,
                               <<Keyword("administrator", True)>>)),
                 ExprStmt(Attribute(Attribute(Attribute(Name("ctx"), "author"),
                                              "guild_permissions"), "manage_roles"))>>,
               <<UserLeaf>>)>>)

\* an unknown name in a decorator on a command that sends
UnknownModule ==
    Module(<<FunctionDef("AsyncFunctionDef", <<>>,
               <<ExprStmt(Await(Call(Attribute(Name("channel"), "send"),
                                     <<Name("text")>>, <<>>)))>>,
               <<UnknownLeaf>>)>>)

\* aliases and upper-case spellings in a bot decorator, a permission object
\* and an access through guild_permissions, on a command that purges
AliasModule ==
    Module(<<FunctionDef("AsyncFunctionDef", <<>>,
               <<ExprStmt(Call(Attribute(Name("discord"), "Permissions"), <<>>,
                               <<Keyword("send_message", True)>>)),
                 ExprStmt(Attribute(Attribute(Attribute(Name("ctx"), "author"),
                                              "guild_permissions"), "BAN_MEMBERS")),
                 ExprStmt(Await(Call(Attribute(Name("channel"), "purge"), <<>>,
                                     <<Keyword("limit", Name("amount"))>>)))>>,
               <<Call(Attribute(Name("commands"), "bot_has_permissions"), <<>>,
                      <<Keyword("Read_Messages", True),
                        Keyword("manage_emojis", True)>>)>>)>>)

\* two unknown names in one decorator
TwoUnknownModule ==
    Module(<<Decorated("AsyncFunctionDef",
               <<Call(Name("has_permissions"), <<>>,
                      <<Keyword("teleport", True), Keyword("fly", True)>>)>>)>>)

\* the files a walk is made of
FileUniverse ==
    {Unparsed(kind) : kind \in {"unreadable", "undecodable", "invalid", "overflow"}}
        \cup {File(<<>>, ".py", "module", m, FALSE) :
                 m \in {Module(<<>>), BotModule, UserModule, UnknownModule,
                        AliasModule, TwoUnknownModule}}
        \cup {File(<<>>, ".py", "module", BotModule, TRUE),
              File(<<"cogs", "venv">>, ".py", "module", BotModule, FALSE),
              File(<<"venv">>, ".py", "module", UserModule, FALSE),
              File(<<"node_modules", "pkg", "lib">>, ".py", "invalid", Module(<<>>), FALSE),
              File(<<"src", "__pycache__">>, ".py", "overflow", Module(<<>>), FALSE),
              File(<<"cogs", "venv2">>, ".py", "module", UserModule, FALSE),
              File(<<>>, ".txt", "invalid", Module(<<>>), FALSE)}

Init ==
    /\ files \in SeqsUpTo(FileUniverse, MaxFiles)
    /\ include_inferred \in BOOLEAN
    /\ scan = NewScan
    /\ idx = 0
    /\ scan_pc = "walk"
    /\ file_result = empty_result
    /\ result = NoResult
    /\ total_permissions = Zero
    /\ IdleLookup
    /\ IdleCalc
    /\ IdleVisit
    /\ IdleLink

\* the loop of scan_directory reaches its next .py file: files_scanned += 1
\* and scan_file is entered
WalkNext ==
    /\ scan_pc = "walk"
    /\ NextPython(files, idx + 1) <= Len(files)
    /\ idx' = NextPython(files, idx + 1)
    /\ scan' = [scan EXCEPT !.files_scanned = @ + 1]
    /\ file_result' = empty_result
    /\ scan_pc' = "open"
    /\ UNCHANGED <<files, include_inferred, result, total_permissions>>
    /\ UNCHANGED <<lookupVars, calcVars, visitVars, linkVars>>

\* scan_file: open and read the file
ReadFile ==
    /\ scan_pc = "open"
    /\ IF files[idx].kind = "unreadable"
       THEN /\ file_result' =
                  [empty_result EXCEPT !.warnings =
                      <<FileWarning("Could not read file ", PathOf(idx))>>]
            /\ scan_pc' = "merge"
       ELSE IF files[idx].kind = "undecodable"
       THEN /\ file_result' =
                  [empty_result EXCEPT !.warnings =
                      <<FileWarning("Encoding error in ", PathOf(idx))>>]
            /\ scan_pc' = "merge"
       ELSE /\ file_result' = file_result
            /\ scan_pc' = "parse"
    /\ UNCHANGED <<files, include_inferred, scan, idx, result, total_permissions>>
    /\ UNCHANGED <<lookupVars, calcVars, visitVars, linkVars>>

\* scan_file: ast.parse; only SyntaxError is caught
ParseFile ==
    /\ scan_pc = "parse"
    /\ IF files[idx].kind = "invalid"
       THEN /\ file_result' =
                  [empty_result EXCEPT !.warnings =
                      <<FileWarning("Syntax error in ", PathOf(idx))>>]
            /\ scan_pc' = "merge"
       ELSE IF files[idx].kind = "overflow"
       THEN /\ file_result' = file_result
            /\ scan_pc' = "raised"
       ELSE /\ file_result' = file_result
            /\ scan_pc' = "visit"
    /\ UNCHANGED <<files, include_inferred, scan, idx, result, total_permissions>>
    /\ UNCHANGED <<lookupVars, calcVars, visitVars, linkVars>>

\* scan_file: visitor.visit(tree) outside any try, then the returned
\* dictionary
VisitFile ==
    /\ scan_pc = "visit"
    /\ IF files[idx].deep
       THEN /\ file_result' = file_result
            /\ scan_pc' = "raised"
       ELSE /\ file_result' = visit(NewVisitor, files[idx].tree)
            /\ scan_pc' = "merge"
    /\ UNCHANGED <<files, include_inferred, scan, idx, result, total_permissions>>
    /\ UNCHANGED <<lookupVars, calcVars, visitVars, linkVars>>

\* scan_directory: the rest of the loop body
MergeResult ==
    /\ scan_pc = "merge"
    /\ scan' = Merged(scan, file_result)
    /\ scan_pc' = "walk"
    /\ UNCHANGED <<files, include_inferred, idx, file_result, result, total_permissions>>
    /\ UNCHANGED <<lookupVars, calcVars, visitVars, linkVars>>

\* scan_directory: the walk is over, the dictionary is returned
ReturnResult ==
    /\ scan_pc = "walk"
    /\ NextPython(files, idx + 1) > Len(files)
    /\ result' = ScanResult(scan, include_inferred)
    /\ scan_pc' = "returned"
    /\ UNCHANGED <<files, include_inferred, scan, idx, file_result, total_permissions>>
    /\ UNCHANGED <<lookupVars, calcVars, visitVars, linkVars>>

\* main: total_permissions = calculate_permissions(result['all_bot_permissions'])
MainCalculate ==
    /\ scan_pc = "returned"
    /\ \E order \in Orderings(result.all_bot_permissions) :
          total_permissions' = calculate_permissions(order)
    /\ scan_pc' = "done"
    /\ UNCHANGED <<files, include_inferred, scan, idx, file_result, result>>
    /\ UNCHANGED <<lookupVars, calcVars, visitVars, linkVars>>

Next ==
    \/ WalkNext
    \/ ReadFile
    \/ ParseFile
    \/ VisitFile
    \/ MergeResult
    \/ ReturnResult
    \/ MainCalculate

Spec == Init /\ [][Next]_vars

(***************************************************************************)
(* create_invite_link.  A string is the sequence of its characters.        *)
(***************************************************************************)
\* "https://discord.com/oauth2/authorize?client_id="
UrlHead ==
    <<"h", "t", "t", "p", "s", ":", "/", "/", "d", "i", "s", "c", "o", "r",
      "d", ".", "c", "o", "m", "/", "o", "a", "u", "t", "h", "2", "/", "a",
      "u", "t", "h", "o", "r", "i", "z", "e", "?", "c", "l", "i", "e", "n",
      "t", "_", "i", "d", "=">>

\* "&permissions="
PermissionsKey == <<"&", "p", "e", "r", "m", "i", "s", "s", "i", "o", "n", "s", "=">>

\* "&scope="
ScopeKey == <<"&", "s", "c", "o", "p", "e", "=">>

\* "%20"
ScopeSeparator == <<"%", "2", "0">>

\* 'bot'
BotScope == <<"b", "o", "t">>

\* 'applications.commands'
CommandsScope ==
    <<"a", "p", "p", "l", "i", "c", "a", "t", "i", "o", "n", "s", ".", "c",
      "o", "m", "m", "a", "n", "d", "s">>

DigitChar == <<"0", "1", "2", "3", "4", "5", "6", "7", "8", "9">>

\* divmod(n, 10) of an integer kept in two limbs
DivMod10(n) ==
    LET t == (n.hi % 10) * LimbBase + n.lo IN
    [q |-> [hi |-> n.hi \div 10, lo |-> t \div 10], r |-> t % 10]

RECURSIVE Digits(_)
\* the decimal digits of a positive integer, the leading digit first
Digits(n) ==
    IF n = Zero THEN <<>>
    ELSE Digits(DivMod10(n).q) \o <<DigitChar[DivMod10(n).r + 1]>>

\* the text an f-string gives for a non-negative int
Decimal(n) == IF n = Zero THEN <<"0">> ELSE Digits(n)

RECURSIVE Join_comma(_, _)
\* a join that separates the parts by a comma
Join_comma(sep, parts) ==
    IF parts = <<>> THEN <<>>
    ELSE IF Len(parts) = 1 THEN parts[1]
    ELSE parts[1] \o <<",">> \o Join_comma(sep, Tail(parts))

RECURSIVE Join(_, _)
\* sep.join(parts)
Join(sep, parts) ==
    IF parts = <<>> THEN <<>>
    ELSE IF Len(parts) = 1 THEN parts[1]
    ELSE parts[1] \o sep \o Join(sep, Tail(parts))

\* create_invite_link
create_invite_link(client_id, permissions, scopes) ==
    LET used == IF ~scopes.given THEN <<BotScope, CommandsScope>> ELSE scopes.list
        scope_str == Join(ScopeSeparator, used)
    IN UrlHead \o client_id \o PermissionsKey \o Decimal(permissions)
           \o ScopeKey \o scope_str

\* client ids: digits, the empty string, and characters that have a meaning
\* in a URL
ClientIds ==
    {<<"1", "2", "3">>, <<>>, <<"0", "0", "7">>, <<"a", "&", "b", " ", "c", "=", "%">>,
     <<"9", "8", "7", "6", "5", "4", "3", "2", "1", "0", "1", "2", "3", "4", "5", "6",
       "7", "8">>}

\* permission integers: 0, small values, values with zero digits, a value
\* of the high limb alone, the highest bit of the table, and all bits set
LinkPermissions ==
    {Zero, [hi |-> 0, lo |-> 6], [hi |-> 0, lo |-> 10], [hi |-> 0, lo |-> 2054],
     [hi |-> 0, lo |-> 1000000], [hi |-> 1, lo |-> 0], Shl(50),
     [hi |-> LimbBase - 1, lo |-> LimbBase - 1]}

\* scope lists: not given, empty, one scope, two scopes in both orders, and
\* scopes holding a space and a percent sign
ScopeLists ==
    {NoScopes} \cup
    {[given |-> TRUE, list |-> l] :
        l \in {<<>>, <<BotScope>>, <<BotScope, CommandsScope>>,
               <<CommandsScope, BotScope>>, <<BotScope, BotScope, BotScope>>,
               <<<<"a", " ", "b">>, <<"c", "%", "2", "0", "d">>>>,
               <<<<>>, BotScope>>}}

InitLink ==
    /\ link_client_id \in ClientIds
    /\ link_permissions \in LinkPermissions
    /\ link_scopes \in ScopeLists
    /\ invite_link = <<>>
    /\ link_pc = "start"
    /\ IdleLookup
    /\ IdleCalc
    /\ IdleVisit
    /\ IdleScan

CreateInviteLink ==
    /\ link_pc = "start"
    /\ invite_link' = create_invite_link(link_client_id, link_permissions, link_scopes)
    /\ link_pc' = "done"
    /\ UNCHANGED <<link_client_id, link_permissions, link_scopes>>
    /\ UNCHANGED <<lookupVars, calcVars, visitVars, scanVars>>

NextLink == CreateInviteLink

SpecLink == InitLink /\ [][NextLink]_vars

(***************************************************************************)
(* Arithmetic used to state the properties of a permission integer.        *)
(***************************************************************************)
RECURSIVE SumPow2(_)
\* the sum of 2^k over the k of a finite set of naturals
SumPow2(K) ==
    IF K = {} THEN 0
    ELSE LET k == CHOOSE x \in K : TRUE IN 2 ^ k + SumPow2(K \ {k})

\* the integer whose set bits are exactly the positions of K
MaskOfBits(K) ==
    [hi |-> SumPow2({k - LimbBits : k \in {x \in K : x >= LimbBits}}),
     lo |-> SumPow2({k \in K : k < LimbBits})]

\* bit k of the integer v
BitAt(v, k) ==
    IF k < LimbBits THEN (v.lo \div (2 ^ k)) % 2
                    ELSE (v.hi \div (2 ^ (k - LimbBits))) % 2

\* the positions a permission may occupy: 0..50 without the reserved 47, 48
AssignedBits == (0..50) \ {47, 48}

\* the bit positions of the names of S that resolve
ResolvedBits(S) ==
    {k \in 0..(2 * LimbBits - 1) : \E n \in S : get_permission_value(n) /= None
                                /\ BitAt(get_permission_value(n), k) = 1}

Range(s) == {s[i] : i \in 1..Len(s)}

Reverse(s) == [i \in 1..Len(s) |-> s[Len(s) + 1 - i]]

(***************************************************************************)
(* C4: calculate_permission_integer returns the bitwise OR of the bit      *)
(* values of the names that resolve, names that do not resolve adding 0;   *)
(* the result depends on the set of names only, neither on their order nor *)
(* on repetitions, and is 0 for the empty collection.                      *)
(***************************************************************************)
CalcIsOrOfResolved ==
    calc_pc = "done" =>
        /\ calc_total = MaskOfBits(ResolvedBits(Range(calc_names)))
        /\ calc_total = calculate_permission_integer(Reverse(calc_names))
        /\ calc_total = calculate_permission_integer(calc_names \o calc_names)
        /\ (calc_names = <<>> => calc_total = Zero)

\* a collection with a repeated name, an alias beside its canonical name and
\* a name that does not resolve has been folded
CalcIsOrOfResolvedWitness ==
    /\ calc_pc = "done"
    /\ calc_names = <<"ban_members", "teleport", "ban_members">>
    /\ calc_total = Shl(2)

(***************************************************************************)
(* C5: every alias maps to a canonical name that is not an alias, and      *)
(* get_permission_value of the alias is the bit value of that canonical    *)
(* name, never None.                                                       *)
(***************************************************************************)
AliasResolvesInOneHop ==
    /\ \A a \in DOMAIN PERMISSION_ALIASES :
          /\ PERMISSION_ALIASES[a] \in DOMAIN PermissionShift
          /\ PERMISSION_ALIASES[a] \notin DOMAIN PERMISSION_ALIASES
    /\ (lookup_pc = "done" /\ lookup_name \in DOMAIN PERMISSION_ALIASES) =>
          /\ lookup_value /= None
          /\ lookup_value = get_permission_value(PERMISSION_ALIASES[lookup_name])
          /\ lookup_value = MaskOfBits({PermissionShift[PERMISSION_ALIASES[lookup_name]]})

\* the alias manage_emojis_and_stickers has been looked up and gave bit 30
AliasResolvesInOneHopWitness ==
    /\ lookup_pc = "done"
    /\ lookup_name = "manage_emojis_and_stickers"
    /\ lookup_value = Shl(30)

(***************************************************************************)
(* C6: every value of the permission table is one set bit at a position of *)
(* 0..50 other than 47 and 48, so every result of                          *)
(* calculate_permission_integer is below 2^51 with bits 47 and 48 clear.   *)
(***************************************************************************)
MaskWithinAssignedBits ==
    /\ \A n \in DOMAIN PERMISSIONS :
          \E k \in AssignedBits : PERMISSIONS[n] = MaskOfBits({k})
    /\ calc_pc = "done" =>
          /\ \A k \in 51..(2 * LimbBits - 1) : BitAt(calc_total, k) = 0
          /\ calc_total.lo < LimbBase
          /\ calc_total.hi < LimbBase
          /\ BitAt(calc_total, 47) = 0
          /\ BitAt(calc_total, 48) = 0

\* the two highest assigned bits on either side of the reserved pair are set
MaskWithinAssignedBitsWitness ==
    /\ calc_pc = "done"
    /\ BitAt(calc_total, 46) = 1
    /\ BitAt(calc_total, 50) = 1

(***************************************************************************)
(* Vocabulary of the properties of the visitor: what a syntax tree holds,  *)
(* read off the tree without running the visitor.                          *)
(***************************************************************************)
RECURSIVE Concat(_)
\* the concatenation of a sequence of sequences
Concat(ss) == IF ss = <<>> THEN <<>> ELSE Head(ss) \o Concat(Tail(ss))

CountIn(seq, x) == Cardinality({i \in 1..Len(seq) : seq[i] = x})

RECURSIVE NodesOf(_)
\* every node of a tree, the root first
NodesOf(node) ==
    LET kids == Children(node) IN
    <<node>> \o Concat([i \in 1..Len(kids) |-> NodesOf(kids[i])])

DefTypes == {"FunctionDef", "AsyncFunctionDef"}

\* the last segment of a bare or dotted name
LeafName(func) ==
    CASE func.type = "Name" -> func.id
      [] func.type = "Attribute" -> func.attr
      [] OTHER -> ""

BotDecoratorLeaves == {"bot_has_permissions", "bot_has_guild_permissions"}

UserDecoratorLeaves == {"has_permissions", "has_guild_permissions", "default_permissions"}

WrapperLeaves == {"check_any", "check"}

Resolves(name) ==
    Lower(name) \in DOMAIN PermissionShift \cup DOMAIN PERMISSION_ALIASES

\* the canonical name of a name that resolves
Canonical(name) ==
    IF Lower(name) \in DOMAIN PermissionShift THEN Lower(name)
    ELSE PERMISSION_ALIASES[Lower(name)]

\* a literal constant that is falsy
FalsyLiteral(value) == value.type = "Constant" /\ value.value.repr \in FalsyLiterals

\* the named keywords of a call whose value is not a falsy literal
TruthyKeywords(call) ==
    SelectSeq(call.keywords, LAMBDA k : k.arg /= NoneName /\ ~FalsyLiteral(k.value))

RECURSIVE Unwrapped(_)
\* the expressions a decorator expression stands for: itself, or, for a call
\* of a wrapper, what its positional and keyword arguments stand for
Unwrapped(expr) ==
    IF expr.type = "Call" /\ LeafName(expr.func) \in WrapperLeaves
    THEN LET inner == expr.args \o [i \in 1..Len(expr.keywords) |-> expr.keywords[i].value]
         IN Concat([i \in 1..Len(inner) |-> Unwrapped(inner[i])])
    ELSE <<expr>>

UnwrappedList(decorator_list) ==
    Concat([i \in 1..Len(decorator_list) |-> Unwrapped(decorator_list[i])])

IsPermissionDecorator(expr) ==
    expr.type = "Call" /\ LeafName(expr.func) \in BotDecoratorLeaves \cup UserDecoratorLeaves

\* the definitions of a tree
DefsOf(t) == SelectSeq(NodesOf(t), LAMBDA n : n.type \in DefTypes)

\* the permission decorators of the definitions of a tree, applied directly
\* or nested in wrappers
PermissionDecoratorsOf(t) ==
    LET defs == DefsOf(t) IN
    SelectSeq(Concat([i \in 1..Len(defs) |-> UnwrappedList(defs[i].decorator_list)]),
              IsPermissionDecorator)

\* the calls of permission-object constructors and of the update method
IsObjectCall(n) ==
    /\ n.type = "Call"
    /\ \/ LeafName(n.func) \in PERMISSION_CLASSES
       \/ n.func.type = "Attribute" /\ n.func.attr = "update"

ObjectCallsOf(t) == SelectSeq(NodesOf(t), IsObjectCall)

\* none of the nodes is a call of a mapped method or of a permission object,
\* nor an access through a permission container
NoPatternIn(nodes) ==
    \A i \in 1..Len(nodes) :
        /\ nodes[i].type = "Call" =>
              /\ LeafName(nodes[i].func) \notin DOMAIN METHOD_TO_PERMISSIONS
              /\ ~IsObjectCall(nodes[i])
        /\ (nodes[i].type = "Attribute" /\ nodes[i].value.type = "Attribute") =>
              nodes[i].value.attr \notin PERMISSION_ATTRIBUTES

NoCallOrAttributePattern(t) == NoPatternIn(NodesOf(t))

\* none of the expressions is a call of a wrapper
NoWrapperIn(decorators) ==
    \A j \in 1..Len(decorators) :
        ~(decorators[j].type = "Call" /\ LeafName(decorators[j].func) \in WrapperLeaves)

NoWrapperAt(defs) == \A i \in 1..Len(defs) : NoWrapperIn(defs[i].decorator_list)

\* every decorator of every definition is applied directly
NoWrapper(t) == NoWrapperAt(DefsOf(t))

\* the canonical names of the keywords that resolve
CanonicalOf(keywords) ==
    {Canonical(keywords[j].arg) :
        j \in {x \in 1..Len(keywords) : Resolves(keywords[x].arg)}}

\* the canonical names the truthy keywords of the given calls resolve to
DeclaredBy(calls) ==
    UNION {CanonicalOf(TruthyKeywords(calls[i])) : i \in 1..Len(calls)}

CategorySets ==
    {"user_permissions", "bot_permissions", "inferred_permissions",
     "permission_objects", "attribute_permissions"}

BanKickExample ==
    Decorated("AsyncFunctionDef",
        <<Call(Attribute(Name("commands"), "bot_has_permissions"), <<>>,
               <<Keyword("ban_members", True), Keyword("kick_members", True)>>)>>)

(***************************************************************************)
(* Vocabulary of the properties of a directory scan.                       *)
(***************************************************************************)
\* the positions of the walk that hold a .py file outside excluded
\* directories
ScannedFiles ==
    {j \in 1..Len(files) : Walked(files[j], DEFAULT_EXCLUDE_DIRS) /\ IsPython(files[j])}

\* the file could be read and decoded, and its text could not be parsed
FailsToParse(f) == f.kind \in {"invalid", "overflow"}

\* scan_file has ended for the file at position i, by returning or raising
Ended(i) == idx > i \/ (idx = i /\ scan_pc \in {"merge", "walk", "raised", "returned", "done"})

\* the result of the file at position i has been merged
MergedIn(i) == idx > i \/ (idx = i /\ scan_pc \in {"walk", "returned", "done"})

\* the names the file at position j adds to a category
SetsOf(j, category) ==
    IF files[j].kind = "module" THEN visit(NewVisitor, files[j].tree)[category] ELSE {}

\* the number of warnings the file at position j gives
WarningsOf(j) ==
    IF files[j].kind = "module" THEN Len(visit(NewVisitor, files[j].tree).warnings) ELSE 1

RECURSIVE SumOver(_, _)
\* the sum of WarningsOf over a set of positions
SumOver(J, dummy) ==
    IF J = {} THEN 0
    ELSE LET j == CHOOSE x \in J : TRUE IN WarningsOf(j) + SumOver(J \ {j}, dummy)

\* the warnings of a list that name the path
WarningsAbout(warnings, file_path) ==
    SelectSeq(warnings, LAMBDA w : "path" \in DOMAIN w /\ w.path = file_path)

(***************************************************************************)
(* C1: no failure raised while reading, parsing or walking a file leaves   *)
(* scan_file: scan_directory never ends by an exception, whatever the      *)
(* files are.                                                              *)
(***************************************************************************)
NoFailureEscapes == scan_pc /= "raised"

(***************************************************************************)
(* C2: a file that fails to parse gives a result with the five sets empty  *)
(* and one warning, is merged as one more file with errors and one more    *)
(* warning, and the scan returns what the other files give.                *)
(***************************************************************************)
ParseFailureIsolated ==
    \A i \in ScannedFiles :
        (FailsToParse(files[i]) /\ Ended(i)) =>
            /\ ~(idx = i /\ scan_pc = "raised")
            /\ (idx = i /\ scan_pc = "merge") =>
                  /\ \A c \in CategorySets : file_result[c] = {}
                  /\ Len(file_result.warnings) = 1
            /\ MergedIn(i) =>
                  Len(WarningsAbout(scan.all_warnings, PathOf(i))) = 1
            /\ result /= NoResult =>
                  LET others == ScannedFiles \ {i} IN
                  /\ \A c \in CategorySets :
                        result[c] = UNION {SetsOf(j, c) : j \in others}
                  /\ result.files_with_errors =
                        1 + Cardinality({j \in others : WarningsOf(j) > 0})
                  /\ Len(result.warnings) = 1 + SumOver(others, 0)

(***************************************************************************)
(* C3: the set behind the invite bitmask is bot_permissions joined with    *)
(* inferred_permissions when include_inferred holds and bot_permissions    *)
(* alone when it does not; a name found only in user_permissions,          *)
(* permission_objects or attribute_permissions is never in it; main folds  *)
(* exactly this set into the permission integer.                           *)
(***************************************************************************)
InviteSetIsBotPlusInferred ==
    result /= NoResult =>
        LET bot == UNION {SetsOf(j, "bot_permissions") : j \in ScannedFiles}
            inferred == UNION {SetsOf(j, "inferred_permissions") : j \in ScannedFiles}
            expected == IF include_inferred THEN bot \cup inferred ELSE bot
        IN /\ result.bot_permissions = bot
           /\ result.inferred_permissions = inferred
           /\ result.all_bot_permissions = expected
           /\ \A n \in result.user_permissions \cup result.permission_objects
                          \cup result.attribute_permissions :
                 n \in result.all_bot_permissions => n \in expected
           /\ scan_pc = "done" => total_permissions = MaskOfBits(ResolvedBits(expected))

\* with include_inferred off, a scan of the bot module and the user module
\* ended with ban_members alone, although kick_members was inferred
InviteSetIsBotPlusInferredWitness ==
    /\ scan_pc = "done"
    /\ ~include_inferred
    /\ files = <<File(<<>>, ".py", "module", BotModule, FALSE),
                 File(<<>>, ".py", "module", UserModule, FALSE)>>
    /\ result.inferred_permissions = {"kick_members"}
    /\ result.user_permissions = {"manage_messages"}
    /\ result.all_bot_permissions = {"ban_members"}
    /\ total_permissions = Shl(2)

(***************************************************************************)
(* C7: for decorators applied directly to definitions, bare or qualified,  *)
(* bot_permissions holds exactly the canonical names of the truthy,        *)
(* resolving keywords of the bot decorators and user_permissions those of  *)
(* the user decorators; nothing enters the three other sets.  The decorator*)
(* bot_has_permissions(ban_members=True, kick_members=True) gives          *)
(* {ban_members, kick_members} and the bitmask 6.                          *)
(***************************************************************************)
DecoratorsFillTheirSet ==
    /\ (visit_pc = "done" /\ NoWrapper(tree) /\ NoCallOrAttributePattern(tree)) =>
          LET decs == PermissionDecoratorsOf(tree) IN
          /\ visitor.bot_permissions =
                DeclaredBy(SelectSeq(decs, LAMBDA d : LeafName(d.func) \in BotDecoratorLeaves))
          /\ visitor.user_permissions =
                DeclaredBy(SelectSeq(decs, LAMBDA d : LeafName(d.func) \in UserDecoratorLeaves))
          /\ visitor.inferred_permissions = {}
          /\ visitor.permission_objects = {}
          /\ visitor.attribute_permissions = {}
    /\ (visit_pc = "done" /\ tree = BanKickExample) =>
          /\ visitor.bot_permissions = {"ban_members", "kick_members"}
          /\ \A order \in Orderings(visitor.bot_permissions) :
                calculate_permissions(order) = [hi |-> 0, lo |-> 6]

\* the qualified decorator of the example has been visited
DecoratorsFillTheirSetWitness ==
    /\ visit_pc = "done"
    /\ tree = BanKickExample
    /\ visitor.bot_permissions = {"ban_members", "kick_members"}
    /\ visitor.user_permissions = {}

(***************************************************************************)
(* C8: in a permission decorator, a permission-object constructor or an    *)
(* update call, a named keyword is discarded exactly when its value is a   *)
(* falsy literal; with a truthy literal or any other expression it is      *)
(* processed: its name enters the target set, or is warned about when it   *)
(* does not resolve.  has_permissions(administrator=False) gives no user   *)
(* permission.                                                             *)
(***************************************************************************)
\* the calls whose keywords are read, with the set each fills
KeywordCallsOf(t) == PermissionDecoratorsOf(t) \o ObjectCallsOf(t)

TargetOf(call) ==
    IF IsObjectCall(call) THEN "permission_objects"
    ELSE IF LeafName(call.func) \in BotDecoratorLeaves THEN "bot_permissions"
    ELSE "user_permissions"

\* the keyword left no trace in the visitor
Discarded(k, target) ==
    /\ Resolves(k.arg) => Canonical(k.arg) \notin visitor[target]
    /\ \A i \in 1..Len(visitor.warnings) :
          Lower(visitor.warnings[i].name) /= Lower(k.arg)

FalseExample ==
    Decorated("AsyncFunctionDef",
        <<Call(Name("has_permissions"), <<>>,
               <<Keyword("administrator", Const("False"))>>)>>)

\* the named keywords of the call, each of a name no other keyword of the
\* call shares, are discarded exactly when their value is a falsy literal
DiscardedIffFalsy(call) ==
    \A i \in 1..Len(call.keywords) :
        (/\ call.keywords[i].arg /= NoneName
         /\ \A j \in 1..Len(call.keywords) :
               j /= i => Lower(call.keywords[j].arg) /= Lower(call.keywords[i].arg)) =>
            (Discarded(call.keywords[i], TargetOf(call)) <=> FalsyLiteral(call.keywords[i].value))

\* the rule for a tree that holds one call whose keywords are read
SoleCallDiscardsFalsy(calls) == Len(calls) = 1 => DiscardedIffFalsy(calls[1])

\* C8: a named keyword of a recognized call is discarded exactly when its
\* value is a falsy literal, and has_permissions(administrator=False) leaves
\* the user set empty
OnlyFalsyLiteralsDiscarded ==
    /\ visit_pc = "done" => SoleCallDiscardsFalsy(KeywordCallsOf(tree))
    /\ (visit_pc = "done" /\ tree = FalseExample) => visitor.user_permissions = {}

\* a keyword whose value is a call expression was processed by update, next
\* to the example of the literal False
OnlyFalsyLiteralsDiscardedWitness ==
    /\ visit_pc = "done"
    /\ tree = Module(<<ExprStmt(Call(Attribute(Name("perms"), "update"), <<>>,
                  <<Keyword("administrator", Call(Name("f"), <<>>, <<>>))>>))>>)
    /\ visitor.permission_objects = {"administrator"}

(***************************************************************************)
(* C9.  The keywords of the permission decorators of a tree whose value is *)
(* truthy and whose name does not resolve, one entry per occurrence.       *)
(***************************************************************************)
UnknownKeywordsOf(t) ==
    LET decs == PermissionDecoratorsOf(t)
        unknown(d) == SelectSeq(TruthyKeywords(d), LAMBDA k : ~Resolves(k.arg))
        args(ks) == [i \in 1..Len(ks) |-> ks[i].arg]
    IN Concat([i \in 1..Len(decs) |-> args(unknown(decs[i]))])

WarnedNames == [i \in 1..Len(visitor.warnings) |-> visitor.warnings[i].name]

InSomeSet(name) == \E c \in CategorySets : name \in visitor[c]

(***************************************************************************)
(* C9 as stated: each such occurrence gives exactly one warning holding    *)
(* the name as the keyword spells it, and adds nothing to any set.         *)
(***************************************************************************)
UnknownKeywordWarnedAsWritten ==
    (visit_pc = "done" /\ ObjectCallsOf(tree) = <<>>) =>
        LET occ == UnknownKeywordsOf(tree) IN
        /\ Len(visitor.warnings) = Len(occ)
        /\ \A i \in 1..Len(occ) :
              /\ CountIn(WarnedNames, occ[i]) = CountIn(occ, occ[i])
              /\ ~InSomeSet(occ[i])

(***************************************************************************)
(* C9 amended: each such occurrence gives exactly one warning holding the  *)
(* lower-case spelling of the name, and adds nothing to any set, whether   *)
(* the decorator is applied directly or nested in wrappers.                *)
(***************************************************************************)
UnknownKeywordWarnedOnce ==
    (visit_pc = "done" /\ ObjectCallsOf(tree) = <<>>) =>
        LET occ == UnknownKeywordsOf(tree)
            low == [i \in 1..Len(occ) |-> Lower(occ[i])]
        IN /\ Len(visitor.warnings) = Len(occ)
           /\ \A i \in 1..Len(occ) :
                 /\ CountIn(WarnedNames, low[i]) = CountIn(low, low[i])
                 /\ ~InSomeSet(occ[i])
                 /\ ~InSomeSet(low[i])

\* a decorator nested in two wrappers, with the keyword Teleport, was warned
\* about once
UnknownKeywordWarnedOnceWitness ==
    /\ visit_pc = "done"
    /\ tree = Decorated("AsyncFunctionDef",
                 <<Enclose(Name("check"), TRUE,
                      Enclose(Attribute(Name("commands"), "check_any"), FALSE,
                         Call(Attribute(Name("commands"), "has_permissions"), <<>>,
                              <<Keyword("Teleport", True), Keyword("ban_members", True)>>)))>>)
    /\ visitor.warnings = <<UnknownPermission("teleport")>>
    /\ visitor.user_permissions = {"ban_members"}

(***************************************************************************)
(* C10: a permission decorator nested at any depth in wrapper calls, as a  *)
(* positional or as a keyword argument, is treated as the same decorator   *)
(* applied directly: the visitor ends with the same five sets and the same *)
(* warnings as on the tree whose decorator lists hold the unwrapped        *)
(* decorators.                                                             *)
(***************************************************************************)
RECURSIVE Flattened(_)
\* the tree with every decorator list replaced by what it stands for
Flattened(node) ==
    CASE node.type \in DefTypes ->
            [node EXCEPT !.body = [i \in 1..Len(node.body) |-> Flattened(node.body[i])],
                         !.decorator_list = UnwrappedList(node.decorator_list)]
      [] node.type \in {"Module", "ClassDef"} ->
            [node EXCEPT !.body = [i \in 1..Len(node.body) |-> Flattened(node.body[i])]]
      [] OTHER -> node

\* C10: the visitor ends on a tree with nested decorators as it ends on
\* the tree with the decorators applied directly
NestedAsDirect ==
    visit_pc = "done" => visitor = visit(NewVisitor, Flattened(tree))

\* a user decorator nested twice, by keyword inside positional, was found
NestedAsDirectWitness ==
    /\ visit_pc = "done"
    /\ tree = Decorated("AsyncFunctionDef",
                 <<Enclose(Attribute(Name("commands"), "check_any"), FALSE,
                      Enclose(Name("check"), TRUE,
                         Call(Attribute(Name("commands"), "has_permissions"), <<>>,
                              <<Keyword("manage_messages", True)>>)))>>)
    /\ Flattened(tree) /= tree
    /\ visitor.user_permissions = {"manage_messages"}
    /\ visitor.bot_permissions = {}

(***************************************************************************)
(* C11: every call whose function is an attribute access named as a method *)
(* of the method table adds all the permissions mapped to the method to    *)
(* inferred_permissions, whatever its arguments and wherever it stands;    *)
(* nothing else enters inferred_permissions, and a tree without permission *)
(* decorators keeps user_permissions and bot_permissions empty.            *)
(***************************************************************************)
IsMethodCall(n) ==
    n.type = "Call" /\ n.func.type = "Attribute"
        /\ n.func.attr \in DOMAIN METHOD_TO_PERMISSIONS

\* the permissions mapped to the methods the calls name
MappedBy(calls) ==
    UNION {Range(METHOD_TO_PERMISSIONS[calls[i].func.attr]) : i \in 1..Len(calls)}

BanExample ==
    Placed("awaited in a method",
           Call(Attribute(Name("member"), "ban"), <<>>,
                <<Keyword("reason", Name("reason"))>>))

\* C11: inferred_permissions is what the method calls of the tree map to
MethodCallsInferred ==
    /\ visit_pc = "done" =>
          /\ visitor.inferred_permissions = MappedBy(SelectSeq(NodesOf(tree), IsMethodCall))
          /\ PermissionDecoratorsOf(tree) = <<>> =>
                visitor.user_permissions = {} /\ visitor.bot_permissions = {}
    /\ (visit_pc = "done" /\ tree = BanExample) =>
          visitor.inferred_permissions = {"ban_members"}

\* purge, passed as a keyword value to another call, gave both of its
\* permissions and no declared permission
MethodCallsInferredWitness ==
    /\ visit_pc = "done"
    /\ tree = Placed("keyword value",
                     Call(Attribute(Attribute(Name("ctx"), "guild"), "purge"),
                          <<Name("user")>>,
                          <<Keyword("delete_message_days", Const("0"))>>))
    /\ visitor.inferred_permissions = {"manage_messages", "read_message_history"}
    /\ visitor.user_permissions = {}
    /\ visitor.bot_permissions = {}

(***************************************************************************)
(* C12.  The calls named Permissions, PermissionOverwrite or update,       *)
(* whatever the form of the name, and the two forms of a name.             *)
(***************************************************************************)
ObjectTargetNames == {"Permissions", "PermissionOverwrite", "update"}

IsObjectTarget(n) == n.type = "Call" /\ LeafName(n.func) \in ObjectTargetNames

\* the tree is one statement that calls one of the names
SoleCallOf(t, names) ==
    /\ t.type = "Module"
    /\ Len(t.body) = 1
    /\ t.body[1].type = "Expr"
    /\ t.body[1].value.type = "Call"
    /\ LeafName(t.body[1].value.func) \in names

\* the same call with a bare name qualified and a qualified name bare
OtherForm(call) ==
    [call EXCEPT !.func = IF @.type = "Name" THEN Attribute(Name("discord"), @.id)
                          ELSE Name(@.attr)]

\* the visitor ends on the tree as it ends on the other form of its call
FormsAgree ==
    visitor = visit(NewVisitor, Module(<<ExprStmt(OtherForm(tree.body[1].value))>>))

(***************************************************************************)
(* C12 as stated: permission_objects holds the canonical names of the      *)
(* truthy resolving keywords of every call named Permissions,              *)
(* PermissionOverwrite or update, and the bare and the qualified form of   *)
(* each of the three names give the same result.                           *)
(***************************************************************************)
ObjectCallsAnyForm ==
    visit_pc = "done" =>
        /\ visitor.permission_objects =
              DeclaredBy(SelectSeq(NodesOf(tree), IsObjectTarget))
        /\ SoleCallOf(tree, ObjectTargetNames) => FormsAgree

(***************************************************************************)
(* C12 amended: permission_objects holds the canonical names of the truthy *)
(* resolving keywords of every call named Permissions or PermissionOverwrite*)
(* in either form and of every call of a method named update; the two      *)
(* forms of a constructor name give the same result; a call of a bare      *)
(* function named update adds nothing.                                     *)
(***************************************************************************)
ObjectCallsByForm ==
    visit_pc = "done" =>
        /\ visitor.permission_objects = DeclaredBy(ObjectCallsOf(tree))
        /\ SoleCallOf(tree, {"Permissions", "PermissionOverwrite"}) => FormsAgree
        /\ (SoleCallOf(tree, {"update"}) /\ tree.body[1].value.func.type = "Name") =>
              visitor = NewVisitor

\* a bare PermissionOverwrite with an alias and an upper-case spelling gave
\* the canonical names
ObjectCallsByFormWitness ==
    /\ visit_pc = "done"
    /\ tree = Module(<<ExprStmt(Call(Name("PermissionOverwrite"), <<>>,
                  <<Keyword("BAN_MEMBERS", True), Keyword("Read_Messages", True)>>))>>)
    /\ visitor.permission_objects = {"ban_members", "view_channel"}

(***************************************************************************)
(* C13: every attribute access (e.c).p with c a permission container adds  *)
(* the canonical name of p to attribute_permissions when p resolves and    *)
(* nothing when it does not, wherever the access stands in a chain; the    *)
(* access adds to no other set.                                            *)
(***************************************************************************)
\* the node is an access of the two-level shape
IsPermissionAccess(n) ==
    n.type = "Attribute" /\ n.value.type = "Attribute"
        /\ n.value.attr \in {"guild_permissions", "permissions", "app_permissions",
                             "resolved_permissions"}

\* the canonical names the accesses among the nodes read
AccessedBy(nodes) ==
    {Canonical(nodes[i].attr) :
        i \in {k \in 1..Len(nodes) : IsPermissionAccess(nodes[k]) /\ Resolves(nodes[k].attr)}}

\* none of the nodes is a call the visitor reads
NoReadCallIn(nodes) ==
    \A i \in 1..Len(nodes) : ~IsMethodCall(nodes[i]) /\ ~IsObjectCall(nodes[i])

\* what the visitor holds after a tree with these nodes
AccessesFill(nodes) ==
    /\ visitor.attribute_permissions = AccessedBy(nodes)
    /\ (NoReadCallIn(nodes) /\ PermissionDecoratorsOf(tree) = <<>>) =>
          visitor = [NewVisitor EXCEPT !.attribute_permissions = AccessedBy(nodes)]

\* C13: attribute_permissions is what the accesses of the two-level shape
\* read, and the accesses fill no other set and give no warning
AccessesFillAttributeSet == visit_pc = "done" => AccessesFill(NodesOf(tree))

\* an alias read through guild_permissions inside a longer chain, in the
\* argument of a call, was added under its canonical name
AccessesFillAttributeSetWitness ==
    /\ visit_pc = "done"
    /\ tree = Placed("argument",
                  Attribute(Attribute(Attribute(Attribute(Name("ctx"), "author"),
                      "guild_permissions"), "read_messages"), "real"))
    /\ visitor = [NewVisitor EXCEPT !.attribute_permissions = {"view_channel"}]

(***************************************************************************)
(* C14: an access permissions_for(...).p with p a permission name adds the *)
(* canonical name of p to attribute_permissions.                           *)
(***************************************************************************)
IsPermissionsForAccess(n) ==
    n.type = "Attribute" /\ n.value.type = "Call"
        /\ LeafName(n.value.func) = "permissions_for"

PermissionsForIn(nodes) ==
    \A i \in 1..Len(nodes) :
        (IsPermissionsForAccess(nodes[i]) /\ Resolves(nodes[i].attr)) =>
            Canonical(nodes[i].attr) \in visitor.attribute_permissions

\* C14: the access through the result of permissions_for is detected
PermissionsForDetected == visit_pc = "done" => PermissionsForIn(NodesOf(tree))

(***************************************************************************)
(* C15: every warning of a file's result and of the aggregate result holds *)
(* a message together with the path of the file that produced it.          *)
(***************************************************************************)
\* the warning holds a message and the path
NamesFile(w, file_path) ==
    "text" \in DOMAIN w /\ "path" \in DOMAIN w /\ w.path = file_path

\* C15: a warning of the file being merged names that file, and a warning
\* of the aggregate names one of the scanned files
WarningsNameTheirFile ==
    /\ scan_pc = "merge" =>
          \A i \in 1..Len(file_result.warnings) :
              NamesFile(file_result.warnings[i], PathOf(idx))
    /\ \A i \in 1..Len(scan.all_warnings) :
          \E j \in ScannedFiles : NamesFile(scan.all_warnings[i], PathOf(j))
    /\ result /= NoResult =>
          \A i \in 1..Len(result.warnings) :
              \E j \in ScannedFiles : NamesFile(result.warnings[i], PathOf(j))

(***************************************************************************)
(* Vocabulary of the properties of the aggregate: the aggregate of a list  *)
(* of files scanned and merged in a given order.                           *)
(***************************************************************************)
\* some directory on the way to the file bears an excluded name
UnderExcluded(f) == \E k \in 1..Len(f.dirs) : f.dirs[k] \in DEFAULT_EXCLUDE_DIRS

\* the positions of the .py files that are under no excluded directory
Eligible == {j \in 1..Len(files) : ~UnderExcluded(files[j]) /\ files[j].suffix = ".py"}

\* what scan_file returns for the file at position j
ResultOf(j) ==
    CASE files[j].kind = "unreadable" ->
            [empty_result EXCEPT !.warnings =
                <<FileWarning("Could not read file ", PathOf(j))>>]
      [] files[j].kind = "undecodable" ->
            [empty_result EXCEPT !.warnings =
                <<FileWarning("Encoding error in ", PathOf(j))>>]
      [] files[j].kind = "invalid" ->
            [empty_result EXCEPT !.warnings =
                <<FileWarning("Syntax error in ", PathOf(j))>>]
      [] OTHER -> visit(NewVisitor, files[j].tree)

RECURSIVE MergeInOrder(_, _, _)
\* the results of the files at order[k], order[k+1], ... merged into s
MergeInOrder(order, k, s) ==
    IF k > Len(order) THEN s
    ELSE MergeInOrder(order, k + 1,
             Merged([s EXCEPT !.files_scanned = @ + 1], ResultOf(order[k])))

Aggregate(order) == MergeInOrder(order, 1, NewScan)

\* the positions of J in increasing order
RECURSIVE Ascending(_)
Ascending(J) ==
    IF J = {} THEN <<>>
    ELSE LET m == CHOOSE x \in J : \A y \in J : x <= y IN <<m>> \o Ascending(J \ {m})

\* two lists hold the same elements the same number of times
SameBag(s, t) ==
    /\ Len(s) = Len(t)
    /\ \A i \in 1..Len(s) : CountIn(s, s[i]) = CountIn(t, s[i])

\* the returned dictionary r is what the locals a give, up to the order of
\* the warnings
SameAggregate(r, a) ==
    /\ \A c \in CategorySets : r[c] = a[c]
    /\ r.all_bot_permissions =
          (IF include_inferred THEN a.bot_permissions \cup a.inferred_permissions
           ELSE a.bot_permissions)
    /\ r.files_scanned = a.files_scanned
    /\ r.files_with_errors = a.files_with_errors
    /\ SameBag(r.warnings, a.all_warnings)

(***************************************************************************)
(* C17: no file under a directory that bears an excluded name, at any      *)
(* depth, is scanned: scan_file is never entered for it and the returned   *)
(* sets, warnings and counts are those of the other files alone.           *)
(***************************************************************************)
ExcludedNeverScanned ==
    /\ idx > 0 => ~UnderExcluded(files[idx])
    /\ scan.files_scanned = Cardinality({j \in Eligible : j <= idx})
    /\ result /= NoResult =>
          /\ SameAggregate(result, Aggregate(Ascending(Eligible)))
          /\ result.warnings = Aggregate(Ascending(Eligible)).all_warnings
          /\ result.files_scanned = Cardinality(Eligible)

\* a bot module under cogs/venv was walked past: the scan of it and of a
\* user module returned the user module alone
ExcludedNeverScannedWitness ==
    /\ scan_pc = "done"
    /\ files = <<File(<<"cogs", "venv">>, ".py", "module", BotModule, FALSE),
                 File(<<>>, ".py", "module", UserModule, FALSE)>>
    /\ result.files_scanned = 1
    /\ result.bot_permissions = {}
    /\ result.inferred_permissions = {}
    /\ result.user_permissions = {"manage_messages"}

(***************************************************************************)
(* C18: the returned aggregate is the same for every order in which the    *)
(* scanned files are scanned and merged: the five sets,                    *)
(* all_bot_permissions, both counts, and the warnings as a multiset.       *)
(***************************************************************************)
OrderIndependent ==
    result /= NoResult =>
        \A order \in Orderings(Eligible) : SameAggregate(result, Aggregate(order))

\* two files that both warn and both add names were merged; the reverse
\* order gives the warnings in the other order
OrderIndependentWitness ==
    /\ scan_pc = "done"
    /\ files = <<File(<<>>, ".py", "module", UnknownModule, FALSE),
                 Unparsed("invalid")>>
    /\ result.files_with_errors = 2
    /\ Aggregate(<<2, 1>>).all_warnings /= result.warnings
    /\ SameBag(Aggregate(<<2, 1>>).all_warnings, result.warnings)

(***************************************************************************)
(* C20.  The state of the file at position j of the walk, read off the     *)
(* position of scan_directory and scan_file:                               *)
(*   Unread   scan_file has not opened it                                  *)
(*   Read     its text is read and decoded                                 *)
(*   Parsed   its tree is built                                            *)
(*   Visited  the walker has returned and scan_file returned its sets      *)
(*   Done     that result is merged                                        *)
(*   Failed   scan_file returned the empty result with a warning           *)
(*   Aborted  scan_file was left by an exception                           *)
(***************************************************************************)
\* the aggregate holds a warning that scan_file gave about the path
FailureMerged(j) ==
    \E i \in 1..Len(scan.all_warnings) : NamesFile(scan.all_warnings[i], PathOf(j))

FileState(j) ==
    IF j > idx THEN "Unread"
    ELSE IF j < idx \/ scan_pc \in {"walk", "returned", "done"}
    THEN (IF FailureMerged(j) THEN "Failed" ELSE "Done")
    ELSE CASE scan_pc = "open" -> "Unread"
           [] scan_pc = "parse" -> "Read"
           [] scan_pc = "visit" -> "Parsed"
           [] scan_pc = "merge" ->
                 IF \E i \in 1..Len(file_result.warnings) :
                        NamesFile(file_result.warnings[i], PathOf(j))
                 THEN "Failed" ELSE "Visited"
           [] OTHER -> "Aborted"

\* the steps of a file: forward one state at a time, or to Failed from a
\* state before the walker has run
FileSteps ==
    {<<"Unread", "Read">>, <<"Read", "Parsed">>, <<"Parsed", "Visited">>,
     <<"Visited", "Done">>, <<"Unread", "Failed">>, <<"Read", "Failed">>,
     <<"Parsed", "Failed">>}

FileStepAllowed(j) ==
    FileState(j)' = FileState(j) \/ <<FileState(j), FileState(j)'>> \in FileSteps

\* the walker runs on a tree only, a failed file holds the empty sets, and
\* when the scan has returned every scanned file is Done or Failed
FileStatesSound ==
    /\ scan_pc = "visit" => files[idx].kind = "module"
    /\ \A j \in Eligible :
          /\ FileState(j) /= "Aborted"
          /\ (FileState(j) = "Failed" /\ j = idx /\ scan_pc = "merge") =>
                \A c \in CategorySets : file_result[c] = {}
          /\ FileState(j) = "Failed" => ~(j = idx /\ scan_pc = "visit")
          /\ result /= NoResult => FileState(j) \in {"Done", "Failed"}

\* C20: every scanned file moves Unread, Read, Parsed, Visited, Done or
\* ends in Failed, entered before the walker runs, and ends in one of Done
\* and Failed
FileLifecycle ==
    /\ []FileStatesSound
    /\ [][\A j \in Eligible : FileStepAllowed(j)]_vars

(***************************************************************************)
(* C16.  The text of an invite link, read apart from its two ends.         *)
(***************************************************************************)
\* "https://discord.com/oauth2/authorize?client_id=123&permissions=6&scope=bot"
ExampleLink ==
    <<"h", "t", "t", "p", "s", ":", "/", "/", "d", "i", "s", "c", "o", "r",
      "d", ".", "c", "o", "m", "/", "o", "a", "u", "t", "h", "2", "/", "a",
      "u", "t", "h", "o", "r", "i", "z", "e", "?", "c", "l", "i", "e", "n",
      "t", "_", "i", "d", "=", "1", "2", "3", "&", "p", "e", "r", "m", "i",
      "s", "s", "i", "o", "n", "s", "=", "6", "&", "s", "c", "o", "p", "e",
      "=", "b", "o", "t">>

\* "&scope=bot%20applications.commands"
DefaultScopeTail ==
    <<"&", "s", "c", "o", "p", "e", "=", "b", "o", "t", "%", "2", "0", "a",
      "p", "p", "l", "i", "c", "a", "t", "i", "o", "n", "s", ".", "c", "o",
      "m", "m", "a", "n", "d", "s">>

\* the integer the decimal digits denote, in two limbs
RECURSIVE DecimalValue(_)
DecimalValue(d) ==
    IF d = <<>> THEN Zero
    ELSE LET n == DecimalValue(SubSeq(d, 1, Len(d) - 1))
             digit == CHOOSE k \in 0..9 : DigitChar[k + 1] = d[Len(d)]
             low == n.lo * 10 + digit
         IN [hi |-> n.hi * 10 + low \div LimbBase, lo |-> low % LimbBase]

\* d is the decimal numeral of n: digits only, no leading zero
IsDecimalOf(d, n) ==
    /\ d /= <<>>
    /\ \A i \in 1..Len(d) : \E k \in 1..10 : DigitChar[k] = d[i]
    /\ Len(d) > 1 => d[1] /= "0"
    /\ DecimalValue(d) = n

\* the parts in their order with %20 between neighbours
JoinedBy(parts) ==
    Concat([i \in 1..Len(parts) |->
               IF i = 1 THEN parts[i] ELSE <<"%", "2", "0">> \o parts[i]])

\* the link is the head, the client id, the key, a numeral of the
\* permissions, the key and the joined scopes
LinkReadsAs(link, client_id, permissions, scopes) ==
    LET a == Len(UrlHead) + Len(client_id) + Len(PermissionsKey)
        tail == ScopeKey \o JoinedBy(scopes)
        b == Len(link) - Len(tail)
    IN /\ b > a
       /\ SubSeq(link, 1, a) = UrlHead \o client_id \o PermissionsKey
       /\ IsDecimalOf(SubSeq(link, a + 1, b), permissions)
       /\ SubSeq(link, b + 1, Len(link)) = tail

\* C16: create_invite_link returns the fixed head, client_id verbatim, the
\* decimal permissions and the scopes joined in their order by %20, the
\* scopes being bot and applications.commands when none are given; the
\* example of client id 123, permissions 6 and scope bot gives its link
InviteLinkExact ==
    link_pc = "done" =>
        /\ LinkReadsAs(invite_link, link_client_id, link_permissions,
                       IF link_scopes.given THEN link_scopes.list
                       ELSE <<<<"b", "o", "t">>, SubSeq(DefaultScopeTail, 14, 34)>>)
        /\ ~link_scopes.given =>
              SubSeq(invite_link, Len(invite_link) - 33, Len(invite_link)) = DefaultScopeTail
        /\ (/\ link_client_id = <<"1", "2", "3">>
            /\ link_permissions = [hi |-> 0, lo |-> 6]
            /\ link_scopes = [given |-> TRUE, list |-> <<<<"b", "o", "t">>>>]) =>
              invite_link = ExampleLink

\* the link of the example has been made
InviteLinkExactWitness ==
    /\ link_pc = "done"
    /\ link_client_id = <<"1", "2", "3">>
    /\ link_permissions = [hi |-> 0, lo |-> 6]
    /\ link_scopes = [given |-> TRUE, list |-> <<<<"b", "o", "t">>>>]
    /\ invite_link = ExampleLink

(***************************************************************************)
(* C19: scanning the sample bot detects from its method calls the four     *)
(* permissions its docstring lists, send_messages, manage_messages,        *)
(* kick_members and ban_members, and no others.                            *)
(***************************************************************************)
SampleBotDetectsListed ==
    (visit_pc = "done" /\ tree = SampleBot) =>
        visitor.inferred_permissions =
            {"send_messages", "manage_messages", "kick_members", "ban_members"}

(***************************************************************************)
(* C21: files_with_errors is the number of scanned files whose scan gave   *)
(* at least one warning, each counted once however many warnings it gave,  *)
(* a file that was read, parsed and walked included; files_scanned counts  *)
(* every .py file outside excluded directories, failed or not; and         *)
(* 0 <= files_with_errors <= files_scanned.  The counters of the loop obey *)
(* the same during the scan, over the files merged so far.                 *)
(***************************************************************************)
\* the scanned positions whose scan_file result holds a warning
Warned == {j \in Eligible : ResultOf(j).warnings /= <<>>}

FilesWithErrorsCounted ==
    /\ scan.files_with_errors = Cardinality({j \in Warned : MergedIn(j)})
    /\ 0 <= scan.files_with_errors
    /\ scan.files_with_errors <= scan.files_scanned
    /\ result /= NoResult =>
          /\ result.files_with_errors = Cardinality(Warned)
          /\ result.files_scanned = Cardinality(Eligible)
          /\ 0 <= result.files_with_errors
          /\ result.files_with_errors <= result.files_scanned

\* a module that parsed and was walked gave two warnings and counts once;
\* the empty module beside it counts as scanned only
FilesWithErrorsCountedWitness ==
    /\ scan_pc = "done"
    /\ files = <<File(<<>>, ".py", "module", TwoUnknownModule, FALSE),
                 File(<<>>, ".py", "module", Module(<<>>), FALSE)>>
    /\ Len(result.warnings) = 2
    /\ result.files_with_errors = 1
    /\ result.files_scanned = 2

(***************************************************************************)
(* C22: at every point of a scan every name held in one of the five        *)
(* category sets, of the visitor, of the result of a file and of the       *)
(* aggregate, and in all_bot_permissions, is a key of PERMISSIONS: an      *)
(* alias is stored under its canonical name, an unknown name is not        *)
(* stored, the spelling is lower case; so get_permission_value gives a     *)
(* value for every name of a scan result and calculate_permission_integer  *)
(* skips none.                                                             *)
(***************************************************************************)
\* every name of the five sets of r is a key of PERMISSIONS
HoldsCanonical(r) == \A c \in CategorySets : r[c] \subseteq DOMAIN PERMISSIONS

\* calculate_permission_integer skips no name of S
NoneSkipped(S) == \A n \in S : get_permission_value(n) /= None

\* the values of both tables the visitor stores names from
TableValues ==
    {PERMISSION_ALIASES[a] : a \in DOMAIN PERMISSION_ALIASES}
        \cup UNION {Range(METHOD_TO_PERMISSIONS[m]) : m \in DOMAIN METHOD_TO_PERMISSIONS}

StoredNamesCanonical ==
    /\ TableValues \subseteq DOMAIN PERMISSIONS
    /\ HoldsCanonical(visitor)
    /\ HoldsCanonical(file_result)
    /\ HoldsCanonical(scan)
    /\ \A c \in CategorySets : NoneSkipped(visitor[c] \cup file_result[c] \cup scan[c])
    /\ result /= NoResult =>
          /\ HoldsCanonical(result)
          /\ result.all_bot_permissions \subseteq DOMAIN PERMISSIONS
          /\ result.declared_permissions \subseteq DOMAIN PERMISSIONS
          /\ NoneSkipped(result.all_bot_permissions)

\* the module of aliases and upper-case spellings was scanned beside a
\* module with an unknown name: the canonical names are stored, teleport is
\* not, and the integer holds a bit for each of the four names
StoredNamesCanonicalWitness ==
    /\ scan_pc = "done"
    /\ include_inferred
    /\ files = <<File(<<>>, ".py", "module", AliasModule, FALSE),
                 File(<<>>, ".py", "module", UnknownModule, FALSE)>>
    /\ result.bot_permissions = {"view_channel", "manage_guild_expressions"}
    /\ result.permission_objects = {"send_messages"}
    /\ result.attribute_permissions = {"ban_members"}
    /\ result.all_bot_permissions =
          {"view_channel", "manage_guild_expressions", "send_messages",
           "manage_messages", "read_message_history"}
    /\ total_permissions = calculate_permission_integer(
          <<"view_channel", "manage_guild_expressions", "send_messages",
            "manage_messages", "read_message_history">>)
    /\ total_permissions /= Zero

====
